---- MODULE Spec2Model ----
(***************************************************************************)
(* Session pipeline of backend/main.py: load_data_node, analyze_data_node, *)
(* categorize_insight_node, parse_insights_node, respond_node and the      *)
(* /invoke handler, run as cooperative tasks over a shared session store   *)
(* (table analysis_sessions) and blob store (bucket processeddfs).         *)
(*                                                                         *)
(* A task runs atomically between two awaits.  The only awaits of the      *)
(* pipeline are the model completions (llm.ainvoke) and the node           *)
(* boundaries of the graph; the supabase client calls are synchronous.     *)
(***************************************************************************)
EXTENDS Integers, Sequences, FiniteSets, TLC

\* ------------------------------------------------------------------ values

\* Python None, for the string-valued fields (session_id, error).
None == "None"

\* Optional structured values: None is the empty tuple, a value v is <<v>>.
Nothing == <<>>
Some(v) == <<v>>

\* ------------------------------------------------------------------ bounds

\* Largest number of rows of an inline payload.
MaxRows == 201

\* Largest number of elements of a model-written tag list.
MaxItems == 11

\* Longest free-form model output (in characters) tried exhaustively.
MaxTextLen == 4

\* Largest number of items of a model-written insights document.
MaxInsights == 3

\* Longest text (in lexemes) given to the JSON extraction on its own.
MaxExtractLen == 6

\* ------------------------------------------------------- program constants

CHUNK_SIZE == 100

\* max_iterations of the follow-up agent.
max_iterations == 15

\* ------------------------------------------------------------------ inputs

\* The two pipeline tasks (two concurrent POST /invoke requests).
Runs == {"r1", "r2"}

\* uuid4 values.
SessionIds == {"u1", "u2"}

\* A payload element: a dict (ordered key/value pairs) or something else.
Dict(kv) == [isDict |-> TRUE, kv |-> kv]
NonDict == [isDict |-> FALSE, kv |-> <<>>]

Keys(d) == [i \in 1..Len(d.kv) |-> d.kv[i][1]]

HasKey(d, k) == \E i \in 1..Len(d.kv) : d.kv[i][1] = k

\* dict.get(k): the value, or None.
Get(d, k) ==
    IF HasKey(d, k)
    THEN d.kv[CHOOSE i \in 1..Len(d.kv) : d.kv[i][1] = k][2]
    ELSE None

\* Truthiness of a value of a dict (None and "" are falsy).
Truthy(v) == v # None /\ v # ""

Row == Dict(<< <<"month", "v">>, <<"revenue", "v">> >>)
RowB == Dict(<< <<"region", "v">> >>)
EmptyRow == Dict(<<>>)
Pointer == Dict(<< <<"type", "supabase_excel">>, <<"path", "f.xlsx">> >>)
PointerNoPath == Dict(<< <<"type", "supabase_excel">>, <<"path", "">> >>)

\* payload.data of the request: a list of elements, or not a list at all.
List(items) == [isList |-> TRUE, items |-> items]
NonList == [isList |-> FALSE, items |-> <<>>]

Rows(n) == [i \in 1..n |-> Row]

\* Row counts around the chunk boundaries, up to MaxRows.
RowCounts ==
    {n \in 1..MaxRows :
        \/ n <= 2
        \/ n % CHUNK_SIZE \in {0, 1}
        \/ n = MaxRows}

\* The payloads of the first task: every shape load_data_node distinguishes.
Payloads ==
    {List(Rows(n)) : n \in RowCounts}
    \cup {List(<<>>), NonList,
          List(<<Pointer>>), List(<<PointerNoPath>>),
          List(<<NonDict>>), List(<<NonDict, NonDict>>), List(<<Row, NonDict>>),
          List(<<EmptyRow>>), List(<<EmptyRow, Row>>), List(<<Row, EmptyRow>>),
          List(<<Row, RowB>>)}

\* The payloads of the first of two concurrent tasks.
TwoPayloads == {List(Rows(1)), List(<<Pointer>>), NonList}

\* A table (pandas DataFrame): its column names in order and its row count.
DataFrame(columns, nrows) == [columns |-> columns, nrows |-> nrows]

\* The spreadsheets a download of the uploads bucket may hold.
ExcelTables ==
    {DataFrame(<<>>, 0), DataFrame(<<"month", "revenue">>, 0),
     DataFrame(<<"month", "revenue">>, 2)}

\* ------------------------------------------------------------------ tables

\* The column names of pd.DataFrame(records): every key of every record, in
\* order of first appearance (by record, then by position in the record).
ColumnsOf(records) ==
    LET N == Len(records)
        K == UNION {{records[i].kv[j][1] : j \in 1..Len(records[i].kv)} : i \in 1..N}
        Row1(k) == CHOOSE i \in 1..N :
                      HasKey(records[i], k) /\ \A h \in 1..(i - 1) : ~HasKey(records[h], k)
        Pos(k) == CHOOSE j \in 1..Len(records[Row1(k)].kv) : records[Row1(k)].kv[j][1] = k
        Before(a, b) == Row1(a) < Row1(b) \/ (Row1(a) = Row1(b) /\ Pos(a) < Pos(b))
    IN  [n \in 1..Cardinality(K) |->
            CHOOSE k \in K : Cardinality({h \in K : Before(h, k)}) = n - 1]

\* pd.DataFrame(list of dicts).
FrameOfRecords(records) == DataFrame(ColumnsOf(records), Len(records))

\* df.empty: no rows or no columns.
IsEmptyFrame(df) == df.nrows = 0 \/ Len(df.columns) = 0

\* df.to_dict(orient='records'): one dict per row, each with every column.
ToRecords(df) ==
    [i \in 1..df.nrows |->
        Dict([j \in 1..Len(df.columns) |-> <<df.columns[j], "v">>])]

\* df.to_parquet(buffer, index=False): the columnar bytes, as schema and
\* row count.
ToParquet(df) == [schema |-> df.columns, num_rows |-> df.nrows]

\* One path for every session.
DfStoragePathShared(id) == <<"processed_data", "table", ".parquet">>

\* f"processed_data/{session_id}.parquet"
DfStoragePath(id) == <<"processed_data", id, ".parquet">>

\* ------------------------------------------------------------------- state

VARIABLES
    sessions,       \* table analysis_sessions: session id -> record
    blobs,          \* bucket processeddfs: path -> bytes
    columnDefault,  \* the table's default for a column an insert leaves out
    lastProcessed,  \* the globals global_last_processed_df, _analysis, _session_id
    run,            \* per task: its AgentState, position and locals
    tagCase,        \* a call of the tag node on its own: the analysis and the reply
    tagOut,         \* what that call gave, Nothing before it
    insightCase,    \* a run of the insight validation on its own: the reply
    insightOut,     \* the list it gave, Nothing before it
    chat,           \* per follow-up request: its position and locals
    fetched,        \* the answer to the last GET /session/{id}, Nothing before it
    extracted        \* what extract_json_from_text gave for a text on its own

vars ==
    <<sessions, blobs, columnDefault, lastProcessed, run, tagCase, tagOut,
      insightCase, insightOut, chat, fetched, extracted>>

\* The error texts of load_data_node.
ErrNoInput == "No input data provided."
ErrDownloadEmpty == "ERROR: Supabase download returned empty or None"
ErrExcelParse == "ERROR: Pandas failed to read Excel bytes"
ErrDownload == "CRITICAL ERROR: Exception during Supabase download"
ErrFrame == "ERROR: Failed to create DataFrame from direct data"
ErrFormat == "ERROR: Input data format not recognized."
ErrStorage == "ERROR: Failed during DataFrame serialization/storage or DB session creation"
ErrEmpty == "ERROR: No data loaded or DataFrame is empty after processing."

\* What the collaborators may answer during one load_data_node call: the
\* download of the uploads bucket, pd.read_excel (a table, or Nothing when it
\* raises), pd.DataFrame, to_parquet, the upload and the insert.  A call the
\* node does not reach has its first answer.
LoadEnvs ==
    {e \in [download : {"bytes", "empty", "raises"},
            excel : {Some(t) : t \in ExcelTables} \cup {Nothing},
            frame : {"ok", "raises"},
            parquet : {"ok", "raises"},
            upload : {"ok", "error", "falsy", "raises"},
            insert : {"ok", "nodata", "raises"}] :
        /\ e.download # "bytes" =>
              e.excel = Some(DataFrame(<<>>, 0)) /\ e.parquet = "ok"
        /\ (e.excel = Nothing \/ e.frame = "raises") => e.parquet = "ok"
        /\ e.parquet = "raises" => e.upload = "ok"
        /\ e.upload # "ok" => e.insert = "ok"}

\* Any body is let through.
IsValidRequestAny(p) == TRUE

\* Line 679: the request body's data must be a List[Dict[str, Any]];
\* anything else is refused with 422 before the handler runs.
IsValidRequest(p) ==
    p.isList /\ \A i \in 1..Len(p.items) : p.items[i].isDict

\* Line 148: the payload is one pointer entry with a path.
IsSupabaseFileInput(p) ==
    /\ p.isList
    /\ Len(p.items) = 1
    /\ Get(p.items[1], "type") = "supabase_excel"
    /\ Truthy(Get(p.items[1], "path"))

\* Line 149 calls .get on the single element: AttributeError when it is no
\* dict, which nothing in the node catches.
RaisesOnGet(p) == p.isList /\ Len(p.items) = 1 /\ ~p.items[1].isDict

\* Line 194: a list whose elements are all dicts.
IsListOfDicts(p) ==
    p.isList /\ \A i \in 1..Len(p.items) : p.items[i].isDict

\* A record whose initial_analysis is the empty text.
SessionDataBlank(id, source, path) ==
    [session_id |-> id,
     original_file_path |-> source,
     dataframe_storage_path |-> path,
     initial_analysis |-> Some(<<>>),
     chat_history |-> Some(<<>>)]

\* The record of lines 245-252.  It has no categorized_insights key.  A
\* JSON column holds null (Nothing) or a value (Some): chat_history is [].
SessionData(id, source, path) ==
    [session_id |-> id,
     original_file_path |-> source,
     dataframe_storage_path |-> path,
     initial_analysis |-> Nothing,
     chat_history |-> Some(<<>>)]

\* The row the insert creates: the given fields, and the column default for
\* categorized_insights.
InsertedRow(rec) ==
    [session_id |-> rec.session_id,
     original_file_path |-> rec.original_file_path,
     dataframe_storage_path |-> rec.dataframe_storage_path,
     initial_analysis |-> rec.initial_analysis,
     chat_history |-> rec.chat_history,
     categorized_insights |-> columnDefault]

\* A node that raises where it would record an error.
ErrorRaised(st, msg) ==
    [raised |-> TRUE, loaded_data |-> st.loaded_data, dataframe |-> st.dataframe,
     session_id |-> st.session_id, error |-> msg,
     df_result |-> Nothing, upload |-> Nothing, insert |-> Nothing]

\* A node's early error return {"error": msg}: the other keys keep their value.
ErrorOnly(st, msg) ==
    [raised |-> FALSE, loaded_data |-> st.loaded_data, dataframe |-> st.dataframe,
     session_id |-> st.session_id, error |-> msg,
     df_result |-> Nothing, upload |-> Nothing, insert |-> Nothing]

\* The error returns that reset loaded_data, dataframe and session_id; df is
\* the local df_result at that point and upload the blob already written.
ErrorReset(msg, df, upload) ==
    [raised |-> FALSE, loaded_data |-> <<>>, dataframe |-> Nothing,
     session_id |-> None, error |-> msg,
     df_result |-> df, upload |-> upload, insert |-> Nothing]

\* Session creation that inserts the record whatever the upload answered.
CreateSessionUnchecked(loaded, df, source, id, env) ==
    IF df # Nothing /\ ~IsEmptyFrame(df[1])
    THEN LET path == DfStoragePath(id)
             up == IF env.upload = "ok"
                   THEN Some([path |-> path, bytes |-> ToParquet(df[1])])
                   ELSE Nothing
         IN  [raised |-> FALSE, loaded_data |-> loaded, dataframe |-> df,
              session_id |-> id, error |-> None,
              df_result |-> df, upload |-> up,
              insert |-> Some(SessionData(id, source, path))]
    ELSE ErrorReset(ErrEmpty, df, Nothing)

\* Session creation that removes the uploaded blob when the insert fails.
CreateSessionCompensated(loaded, df, source, id, env) ==
    IF df # Nothing /\ ~IsEmptyFrame(df[1])
    THEN LET path == DfStoragePath(id)
             up == Some([path |-> path, bytes |-> ToParquet(df[1])])
         IN  IF env.parquet = "raises" \/ env.upload # "ok" \/ env.insert # "ok"
             THEN ErrorReset(ErrStorage, df, Nothing)
             ELSE [raised |-> FALSE, loaded_data |-> loaded, dataframe |-> df,
                   session_id |-> id, error |-> None,
                   df_result |-> df, upload |-> up,
                   insert |-> Some(SessionData(id, source, path))]
    ELSE ErrorReset(ErrEmpty, df, Nothing)

\* Lines 211-283: session creation for a loaded table.
CreateSession(loaded, df, source, id, env) ==
    IF df # Nothing /\ ~IsEmptyFrame(df[1])
    THEN LET path == DfStoragePath(id)
             up == Some([path |-> path, bytes |-> ToParquet(df[1])])
         IN  IF env.parquet = "raises" THEN ErrorReset(ErrStorage, df, Nothing)
             ELSE IF env.upload # "ok" THEN ErrorReset(ErrStorage, df, Nothing)
             ELSE IF env.insert # "ok" THEN ErrorReset(ErrStorage, df, up)
             ELSE [raised |-> FALSE, loaded_data |-> loaded, dataframe |-> df,
                   session_id |-> id, error |-> None,
                   df_result |-> df, upload |-> up,
                   insert |-> Some(SessionData(id, source, path))]
    ELSE ErrorReset(ErrEmpty, df, Nothing)

\* load_data_node (lines 125-283) on state st, with the collaborators
\* answering as env and uuid4 giving id.
load_data_node(st, env, id) ==
    LET p == st.data IN
    IF p.isList /\ p.items = <<>>
    THEN ErrorReset(ErrNoInput, Nothing, Nothing)
    ELSE IF RaisesOnGet(p)
    THEN [ErrorOnly(st, None) EXCEPT !.raised = TRUE]
    ELSE IF IsSupabaseFileInput(p)
    THEN IF env.download = "raises" THEN ErrorOnly(st, ErrDownload)
         ELSE IF env.download = "empty" THEN ErrorOnly(st, ErrDownloadEmpty)
         ELSE IF env.excel = Nothing THEN ErrorOnly(st, ErrExcelParse)
         ELSE CreateSession(ToRecords(env.excel[1]), env.excel, "Supabase Storage", id, env)
    ELSE IF IsListOfDicts(p)
    THEN IF env.frame = "raises" THEN ErrorOnly(st, ErrFrame)
         ELSE CreateSession(p.items, Some(FrameOfRecords(p.items)),
                            "Directly provided data", id, env)
    ELSE ErrorReset(ErrFormat, Nothing, Nothing)

\* ---------------------------------------------------------------- analysis

\* A text the pipeline builds is a sequence of labelled paragraphs; the
\* empty string is the empty sequence.
Paragraph(label, kind) == [label |-> label, kind |-> kind]

\* The empty text.
NoDataTextEmpty == <<>>

\* "No data provided for analysis."
NoDataText == <<Paragraph(0, "NoData")>>

\* "Data loaded, but could not extract headers for initial analysis."
NoHeadersText == <<Paragraph(0, "NoHeaders")>>

\* The multiples of CHUNK_SIZE up to and including n.
ChunkStartsInclusive(n) == {i \in 0..n : i % CHUNK_SIZE = 0}

\* range(0, len(data), CHUNK_SIZE)
ChunkStarts(n) == {i \in 0..(n - 1) : i % CHUNK_SIZE = 0}

\* Line 312: chunks = [data[i:i + CHUNK_SIZE] for i in range(...)], as the
\* (first, last) row positions of each chunk, 1-based.
Chunks(data) ==
    LET n == Len(data)
        starts == ChunkStarts(n)
        Nth(k) == CHOOSE i \in starts : Cardinality({j \in starts : j < i}) = k - 1
    IN  [k \in 1..Cardinality(starts) |->
            [first |-> Nth(k) + 1,
             last |-> IF Nth(k) + CHUNK_SIZE < n THEN Nth(k) + CHUNK_SIZE ELSE n]]

\* Line 306: the keys of the first row.
Headers(data) ==
    IF data # <<>> /\ data[1].isDict THEN Keys(data[1]) ELSE <<>>

\* An error entry numbered from 0.
ChunkEntryMislabelled(index, ok) ==
    Paragraph(IF ok THEN index + 1 ELSE index, IF ok THEN "Summary" ELSE "Error")

\* Lines 351 and 355: the entry of chunk number index + 1.
ChunkEntry(index, ok) ==
    Paragraph(index + 1, IF ok THEN "Summary" ELSE "Error")

\* An update that changes nothing.
UpdateFieldLost(tbl, id, field, value) == tbl

\* An update that writes the whole record: the given field, and the other
\* fields a session starts with.
UpdateFieldWhole(tbl, id, field, value) ==
    [s \in DOMAIN tbl |->
        IF s = id
        THEN [[tbl[s] EXCEPT !.initial_analysis = Nothing,
                             !.chat_history = Some(<<>>)]
                 EXCEPT ![field] = value]
        ELSE tbl[s]]

\* An update that merges: the last two elements of the value are appended
\* to the list the row holds.
UpdateFieldMerged(tbl, id, field, value) ==
    [s \in DOMAIN tbl |->
        IF s = id
        THEN [tbl[s] EXCEPT ![field] =
                Some(@[1] \o SubSeq(value[1], Len(value[1]) - 1, Len(value[1])))]
        ELSE tbl[s]]

\* A partial update .update({field: value}).eq("session_id", id) that
\* succeeds: only the rows with that id change, and only that field.
UpdateField(tbl, id, field, value) ==
    [s \in DOMAIN tbl |->
        IF s = id THEN [tbl[s] EXCEPT ![field] = value] ELSE tbl[s]]

\* What an update call may answer: data, no data, or an exception.  It
\* returns data only for a row that exists.
UpdateAnswers(tbl, id) ==
    IF id \in DOMAIN tbl THEN {"ok", "nodata", "raises"} ELSE {"nodata", "raises"}

\* -------------------------------------------------------------------- tags

\* A model output is a sequence of characters of this alphabet: brackets,
\* a quote, a letter, a digit, a blank and a comma.
Chars == {"[", "]", "'", "a", "1", " ", ","}

\* The position of the first c in s at or after i, or 0.
Find(s, c, i) ==
    IF \E j \in i..Len(s) : s[j] = c
    THEN CHOOSE j \in i..Len(s) : s[j] = c /\ \A k \in i..(j - 1) : s[k] # c
    ELSE 0

\* re.search(r'\[(.*?)\]', text, re.DOTALL).group(0): from the first "["
\* that has a "]" after it to the first such "]"; Nothing when no match.
SearchList(text) ==
    LET opens == {i \in 1..Len(text) :
                    text[i] = "[" /\ \E j \in (i + 1)..Len(text) : text[j] = "]"}
    IN  IF opens = {} THEN Nothing
        ELSE LET i == CHOOSE x \in opens : \A y \in opens : x <= y
             IN  Some(SubSeq(text, i, Find(text, "]", i + 1)))

\* The end of the run of characters of set cs that starts at i.
RunEnd(s, cs, i) ==
    IF \E j \in i..Len(s) : s[j] \notin cs
    THEN (CHOOSE j \in i..Len(s) : s[j] \notin cs /\ \A k \in i..(j - 1) : s[k] \in cs) - 1
    ELSE Len(s)

NoAtom == [kind |-> "none", s |-> <<>>]
Parsed(items) == [exc |-> "none", items |-> items]
Raised(exc) == [exc |-> exc, items |-> <<>>]

\* Whether the three characters of s from i on are quotes.
TripleAt(s, i) ==
    i + 2 <= Len(s) /\ s[i] = "'" /\ s[i + 1] = "'" /\ s[i + 2] = "'"

\* The position of the first closing triple quote of s at or after i, or 0.
FindTriple(s, i) ==
    IF \E j \in i..Len(s) : TripleAt(s, j)
    THEN CHOOSE j \in i..Len(s) : TripleAt(s, j) /\ \A k \in i..(j - 1) : ~TripleAt(s, k)
    ELSE 0

\* The list the parser built, unless an element is a name: literal_eval
\* accepts literals only.
Evaluated(items) ==
    IF \E k \in 1..Len(items) : items[k].kind = "name"
    THEN Raised("ValueError") ELSE Parsed(items)

RECURSIVE ParseElements(_, _, _, _)
\* The elements of a list display whose inside is s, read from position i:
\* numbers, names and string literals (single- or triple-quoted) separated
\* by commas, adjacent string literals concatenated, one trailing comma
\* allowed.  Anything else is a SyntaxError.
ParseElements(s, i, items, cur) ==
    IF i > Len(s)
    THEN Evaluated(IF cur.kind = "none" THEN items ELSE Append(items, cur))
    ELSE IF s[i] = " " THEN ParseElements(s, i + 1, items, cur)
    ELSE IF s[i] = ","
    THEN IF cur.kind = "none" THEN Raised("SyntaxError")
         ELSE ParseElements(s, i + 1, Append(items, cur), NoAtom)
    ELSE IF s[i] = "'"
    THEN LET triple == TripleAt(s, i)
             close == IF triple THEN FindTriple(s, i + 3) ELSE Find(s, "'", i + 1)
             body == IF triple THEN SubSeq(s, i + 3, close - 1)
                     ELSE SubSeq(s, i + 1, close - 1)
             next == IF triple THEN close + 3 ELSE close + 1
         IN  IF close = 0 \/ cur.kind \in {"num", "name"} THEN Raised("SyntaxError")
             ELSE ParseElements(s, next, items, [kind |-> "str", s |-> cur.s \o body])
    ELSE IF s[i] = "1"
    THEN LET end == RunEnd(s, {"1"}, i) IN
         IF cur.kind # "none" \/ (end < Len(s) /\ s[end + 1] = "a")
         THEN Raised("SyntaxError")
         ELSE ParseElements(s, end + 1, items, [kind |-> "num", s |-> SubSeq(s, i, end)])
    ELSE IF s[i] = "a"
    THEN LET end == RunEnd(s, {"a", "1"}, i) IN
         IF cur.kind # "none" \/ (end < Len(s) /\ s[end + 1] = "'")
         THEN Raised("SyntaxError")
         ELSE ParseElements(s, end + 1, items, [kind |-> "name", s |-> SubSeq(s, i, end)])
    ELSE Raised("SyntaxError")

\* ast.literal_eval(list_str) for a string "[" ... "]".
LiteralEval(list_str) ==
    ParseElements(SubSeq(list_str, 2, Len(list_str) - 1), 1, <<>>, NoAtom)

RECURSIVE Strip(_)
\* str.strip()
Strip(s) ==
    IF s = <<>> THEN s
    ELSE IF Head(s) = " " THEN Strip(Tail(s))
    ELSE IF s[Len(s)] = " " THEN Strip(SubSeq(s, 1, Len(s) - 1))
    ELSE s

RECURSIVE CleanTags(_, _)
\* Line 421: the string items whose strip() is not empty, stripped.
CleanTags(items, i) ==
    IF i > Len(items) THEN <<>>
    ELSE IF items[i].kind = "str" /\ Strip(items[i].s) # <<>>
         THEN <<Strip(items[i].s)>> \o CleanTags(items, i + 1)
         ELSE CleanTags(items, i + 1)

\* The exceptions the model raises: a failed completion, and the two of
\* ast.literal_eval.
Exceptions == {"CompletionError", "ValueError", "SyntaxError"}

\* Line 427: except (ValueError, SyntaxError).
InnerCaught == {"ValueError", "SyntaxError"}

\* An outer handler that catches nothing.
OuterCaughtNone == {}

\* Line 431: except Exception.
OuterCaught == Exceptions

\* What leaves the two nested try blocks of lines 400-433 when exc is
\* raised inside them (inner: inside the try of line 416 too): the empty
\* tag list of a handler, or the exception itself.
Handled(exc, inner) ==
    IF (inner /\ exc \in InnerCaught) \/ exc \in OuterCaught
    THEN [raised |-> FALSE, tags |-> <<>>]
    ELSE [raised |-> TRUE, tags |-> <<>>]

\* categorize_insight_node (lines 400-433) once the completion has answered:
\* reply is Nothing when llm.ainvoke raised, else the output text.
TagsOfReply(reply) ==
    IF reply = Nothing THEN Handled("CompletionError", FALSE)
    ELSE LET match == SearchList(reply[1]) IN
         IF match = Nothing THEN [raised |-> FALSE, tags |-> <<>>]
         ELSE LET parsed == LiteralEval(match[1]) IN
              IF parsed.exc = "none"
              THEN [raised |-> FALSE, tags |-> CleanTags(parsed.items, 1)]
              ELSE Handled(parsed.exc, TRUE)

\* Line 382: the node calls the model only for a non-empty analysis text.
NeedsTagCall(analysis_text) == analysis_text # <<>>

\* categorize_insight_node (lines 376-433) as a whole.
categorize_insight_node(analysis_text, reply) ==
    IF NeedsTagCall(analysis_text) THEN TagsOfReply(reply)
    ELSE [raised |-> FALSE, tags |-> <<>>]

\* The text of one list element of the given kind.
ItemText(kind) ==
    IF kind = "str" THEN <<"'", "a", "'">>
    ELSE IF kind = "blank" THEN <<"'", " ", "'">>
    ELSE <<"1">>

RECURSIVE JoinItems(_, _)
\* The element texts of kinds from position i on, separated by commas.
JoinItems(kinds, i) ==
    IF i > Len(kinds) THEN <<>>
    ELSE ItemText(kinds[i])
         \o (IF i < Len(kinds) THEN <<",">> ELSE <<>>)
         \o JoinItems(kinds, i + 1)

\* The element kinds of the written lists: up to MaxItems elements, all of
\* one kind or strings and numbers in turn.
ItemKinds ==
    UNION {{[i \in 1..n |-> k] : k \in {"str", "blank", "num"}}
           \cup {[i \in 1..n |-> IF i % 2 = 1 THEN "str" ELSE "num"]} : n \in 0..MaxItems}

\* Model outputs holding a written list, alone or inside prose.
ListTexts ==
    {pre \o <<"[">> \o JoinItems(kinds, 1) \o <<"]">> \o post :
        kinds \in ItemKinds,
        pre \in {<<>>, <<"a", " ">>},
        post \in {<<>>, <<" ", "[", "'", "a", "'", "]">>}}

\* Every text of at most MaxTextLen characters.
ShortTexts == UNION {[1..n -> Chars] : n \in 0..MaxTextLen}

\* The replies tried on the tag node: a failed completion, or a text.
TagReplies == {Nothing} \cup {Some(t) : t \in ShortTexts \cup ListTexts}

\* ---------------------------------------------------------------- insights

\* The insight prompt's output is a sequence of lexemes with no white space
\* between them: punctuation (the three-backquote fence and { } [ ] : ,), string
\* literals, numbers and bare words.
Tok(t, v) == [t |-> t, v |-> v]
P(v) == Tok("p", v)
S(v) == Tok("str", v)
W(v) == Tok("word", v)
Num == Tok("num", "1")
Fence == P("fence")

\* Positions of the lexeme tk in text, from position i on.
Where(text, tk, i) == {j \in i..Len(text) : text[j] = tk}

\* The least element of a non-empty set of positions.
Least(ps) == CHOOSE x \in ps : \A y \in ps : x <= y

\* The greatest element of a non-empty set of positions.
Greatest(ps) == CHOOSE x \in ps : \A y \in ps : x >= y

\* re.findall(pattern, text)[0] for the two code-block patterns of lines
\* 598-601: the text between an opening fence (followed by the word json
\* when withJson) and the next fence.  Nothing when there is no match.
FirstCodeBlock(text, withJson) ==
    LET skip == IF withJson THEN 2 ELSE 1
        opens == {i \in Where(text, Fence, 1) :
                    /\ withJson => (i < Len(text) /\ text[i + 1] = W("json"))
                    /\ Where(text, Fence, i + skip) # {}}
    IN  IF opens = {} THEN Nothing
        ELSE LET i == Least(opens)
                 close == Least(Where(text, Fence, i + skip))
             IN  Some(SubSeq(text, i + skip, close - 1))

\* Line 607: candidate.startswith('{') and candidate.endswith('}').
LooksLikeObject(candidate) ==
    candidate # <<>> /\ Head(candidate) = P("{") /\ candidate[Len(candidate)] = P("}")

\* Lines 611-620: from the first { to the last }, when the two counts agree.
BraceSpan(text) ==
    LET opens == Where(text, P("{"), 1)
        closes == Where(text, P("}"), 1)
    IN  IF opens # {} /\ closes # {} /\ Greatest(closes) > Least(opens)
        THEN LET candidate == SubSeq(text, Least(opens), Greatest(closes)) IN
             IF Cardinality(Where(candidate, P("{"), 1))
                  = Cardinality(Where(candidate, P("}"), 1))
             THEN Some(candidate) ELSE Nothing
        ELSE Nothing

\* The first match of \{[^}]*"insights"[^}]*\[[^\]]*\][^}]*\} (line 624):
\* from a {, with no } before the key and none between the key and a [,
\* then to the first ] and on to the first } after it.  Each greedy
\* repetition takes the longest stretch that still lets the rest match.
KeyedArrayMatch(text) ==
    LET NoneIn(tk, a, b) == \A j \in a..b : text[j] # tk
        Ends(i) ==
            {<<k, b>> \in (1..Len(text)) \X (1..Len(text)) :
                /\ i < k /\ k < b
                /\ text[k] = S("insights") /\ text[b] = P("[")
                /\ NoneIn(P("}"), i + 1, b - 1)
                /\ Where(text, P("]"), b + 1) # {}
                /\ Where(text, P("}"), Least(Where(text, P("]"), b + 1)) + 1) # {}}
        starts == {i \in Where(text, P("{"), 1) : Ends(i) # {}}
    IN  IF starts = {} THEN Nothing
        ELSE LET i == Least(starts)
                 k == Greatest({e[1] : e \in Ends(i)})
                 b == Greatest({e[2] : e \in {x \in Ends(i) : x[1] = k}})
                 close == Least(Where(text, P("]"), b + 1))
             IN  Some(SubSeq(text, i, Least(Where(text, P("}"), close + 1))))

\* The first match of \{.*?"insights".*?\} (line 625): from a { to the
\* first } after the first "insights" after it.
KeyedObjectMatch(text) ==
    LET Ok(i) == \E k \in Where(text, S("insights"), i + 1) :
                    Where(text, P("}"), k + 1) # {}
        starts == {i \in Where(text, P("{"), 1) : Ok(i)}
    IN  IF starts = {} THEN Nothing
        ELSE LET i == Least(starts)
                 k == Least(Where(text, S("insights"), i + 1))
             IN  Some(SubSeq(text, i, Least(Where(text, P("}"), k + 1))))

\* The extraction with the brace span tried before the code blocks.
extract_json_span_first(text) ==
    LET block1 == FirstCodeBlock(text, TRUE)
        block2 == FirstCodeBlock(text, FALSE)
        span == BraceSpan(text)
        keyed1 == KeyedArrayMatch(text)
        keyed2 == KeyedObjectMatch(text)
    IN  IF span # Nothing THEN span[1]
        ELSE IF block1 # Nothing /\ LooksLikeObject(block1[1]) THEN block1[1]
        ELSE IF block2 # Nothing /\ LooksLikeObject(block2[1]) THEN block2[1]
        ELSE IF keyed1 # Nothing THEN keyed1[1]
        ELSE IF keyed2 # Nothing THEN keyed2[1]
        ELSE <<>>

\* extract_json_from_text (lines 589-633); the empty text when nothing is
\* found.
extract_json_from_text(text) ==
    LET block1 == FirstCodeBlock(text, TRUE)
        block2 == FirstCodeBlock(text, FALSE)
        span == BraceSpan(text)
        keyed1 == KeyedArrayMatch(text)
        keyed2 == KeyedObjectMatch(text)
    IN  IF block1 # Nothing /\ LooksLikeObject(block1[1]) THEN block1[1]
        ELSE IF block2 # Nothing /\ LooksLikeObject(block2[1]) THEN block2[1]
        ELSE IF span # Nothing THEN span[1]
        ELSE IF keyed1 # Nothing THEN keyed1[1]
        ELSE IF keyed2 # Nothing THEN keyed2[1]
        ELSE <<>>

\* A parsed JSON value: a string, a number, an array or an object (its
\* members in order).
JStr(v) == [t |-> "str", v |-> v]
JNum == [t |-> "num", v |-> "1"]
JArr(items) == [t |-> "arr", v |-> items]
JObj(kv) == [t |-> "obj", v |-> kv]

\* dict[k] = v: in place when the key exists, else at the end.
SetKey(kv, k, v) ==
    IF \E i \in 1..Len(kv) : kv[i][1] = k
    THEN [i \in 1..Len(kv) |-> IF kv[i][1] = k THEN <<k, v>> ELSE kv[i]]
    ELSE Append(kv, <<k, v>>)

ParseFail == [ok |-> FALSE, val |-> JNum, next |-> 0]
ParseOk(val, next) == [ok |-> TRUE, val |-> val, next |-> next]

RECURSIVE ParseValue(_, _)
RECURSIVE ParseItems(_, _, _)
RECURSIVE ParseMembers(_, _, _)

\* One JSON value of toks starting at position i, and the position after it.
ParseValue(toks, i) ==
    IF i > Len(toks) THEN ParseFail
    ELSE IF toks[i].t = "str" THEN ParseOk(JStr(toks[i].v), i + 1)
    ELSE IF toks[i].t = "num" THEN ParseOk(JNum, i + 1)
    ELSE IF toks[i] = P("[")
    THEN IF i < Len(toks) /\ toks[i + 1] = P("]") THEN ParseOk(JArr(<<>>), i + 2)
         ELSE ParseItems(toks, i + 1, <<>>)
    ELSE IF toks[i] = P("{")
    THEN IF i < Len(toks) /\ toks[i + 1] = P("}") THEN ParseOk(JObj(<<>>), i + 2)
         ELSE ParseMembers(toks, i + 1, <<>>)
    ELSE ParseFail

\* The rest of an array: a value at i, then a comma and more, or the ].
ParseItems(toks, i, acc) ==
    LET v == ParseValue(toks, i) IN
    IF ~v.ok \/ v.next > Len(toks) THEN ParseFail
    ELSE IF toks[v.next] = P(",") THEN ParseItems(toks, v.next + 1, Append(acc, v.val))
    ELSE IF toks[v.next] = P("]") THEN ParseOk(JArr(Append(acc, v.val)), v.next + 1)
    ELSE ParseFail

\* The rest of an object: a key, a colon and a value at i, then a comma and
\* more, or the }.
ParseMembers(toks, i, acc) ==
    IF i + 1 > Len(toks) \/ toks[i].t # "str" \/ toks[i + 1] # P(":") THEN ParseFail
    ELSE LET v == ParseValue(toks, i + 2) IN
         IF ~v.ok \/ v.next > Len(toks) THEN ParseFail
         ELSE IF toks[v.next] = P(",")
         THEN ParseMembers(toks, v.next + 1, SetKey(acc, toks[i].v, v.val))
         ELSE IF toks[v.next] = P("}")
         THEN ParseOk(JObj(SetKey(acc, toks[i].v, v.val)), v.next + 1)
         ELSE ParseFail

\* json.loads(extracted): the value, or Nothing for a JSONDecodeError (no
\* value, or text after it).
JsonLoads(toks) ==
    LET v == ParseValue(toks, 1) IN
    IF v.ok /\ v.next = Len(toks) + 1 THEN Some(v.val) ELSE Nothing

\* key in insight
HasField(obj, k) == \E i \in 1..Len(obj.v) : obj.v[i][1] = k

\* insight[key]
Field(obj, k) == obj.v[CHOOSE i \in 1..Len(obj.v) : obj.v[i][1] = k][2]

\* Line 519.
RequiredFields == {"label", "value", "trend", "context", "data"}

\* An insight kept as the model wrote it.
FixInsightKeep(insight) == insight

\* Lines 524-531 on one kept insight: a trend outside the three names
\* becomes "stable", a data that is no list becomes [].
FixInsight(insight) ==
    LET trend == Field(insight, "trend")
        fixed1 == IF trend.t = "str" /\ trend.v \in {"up", "down", "stable"}
                  THEN insight.v ELSE SetKey(insight.v, "trend", JStr("stable"))
        fixed2 == IF Field(insight, "data").t = "arr"
                  THEN fixed1 ELSE SetKey(fixed1, "data", JArr(<<>>))
    IN  JObj(fixed2)

\* A validation that drops the items whose trend is not one of the three
\* names.
ValidateInsightsStrict(insights, i) ==
    LET Keep(x) ==
            /\ x.t = "obj"
            /\ \A f \in RequiredFields : HasField(x, f)
            /\ Field(x, "trend").t = "str"
            /\ Field(x, "trend").v \in {"up", "down", "stable"}
        kept == SelectSeq(SubSeq(insights, i, Len(insights)), Keep)
    IN  [k \in 1..Len(kept) |-> FixInsight(kept[k])]

RECURSIVE ValidateInsights(_, _)
\* Lines 512-533: the dicts that have every required field, fixed, in order.
ValidateInsights(insights, i) ==
    IF i > Len(insights) THEN <<>>
    ELSE IF insights[i].t = "obj" /\ \A f \in RequiredFields : HasField(insights[i], f)
         THEN <<FixInsight(insights[i])>> \o ValidateInsights(insights, i + 1)
         ELSE ValidateInsights(insights, i + 1)

\* Lines 484-536 and the handlers of 558-586: final_insights for a reply,
\* Nothing when llm.ainvoke raised.
InsightsOfReply(reply) ==
    IF reply = Nothing THEN <<>>
    ELSE LET json_str == extract_json_from_text(reply[1]) IN
         IF json_str = <<>> THEN <<>>
         ELSE LET data == JsonLoads(json_str) IN
              IF data = Nothing THEN <<>>
              ELSE IF data[1].t # "obj" \/ ~HasField(data[1], "insights") THEN <<>>
              ELSE IF Field(data[1], "insights").t # "arr" THEN <<>>
              ELSE ValidateInsights(Field(data[1], "insights").v, 1)

\* The lexemes of one insight object with the given trend; context is left
\* out unless withContext, and data is a number unless dataIsList.
ItemToks(trend, withContext, dataIsList) ==
    <<P("{"), S("label"), P(":"), S("L"), P(","),
      S("value"), P(":"), S("V"), P(","),
      S("trend"), P(":"), S(trend), P(",")>>
    \o (IF withContext THEN <<S("context"), P(":"), S("c"), P(",")>> ELSE <<>>)
    \o <<S("data"), P(":")>>
    \o (IF dataIsList THEN <<P("["), P("]")>> ELSE <<Num>>)
    \o <<P("}")>>

\* {"insights": [items]}
InsightsDoc(items) ==
    <<P("{"), S("insights"), P(":"), P("[")>> \o items \o <<P("]"), P("}")>>

\* The items a model-written document may hold: an object with a known or
\* unknown trend, with or without context, with a list or a number as data;
\* or a number.
ItemChoices ==
    {ItemToks(trend, withContext, dataIsList) :
        trend \in {"up", "sideways"}, withContext \in BOOLEAN, dataIsList \in BOOLEAN}
    \cup {<<Num>>}

RECURSIVE JoinToks(_, _)
\* The items from position i on, separated by commas.
JoinToks(items, i) ==
    IF i > Len(items) THEN <<>>
    ELSE items[i] \o (IF i < Len(items) THEN <<P(",")>> ELSE <<>>)
         \o JoinToks(items, i + 1)

\* Every sequence of at most MaxInsights items.
ItemLists == UNION {[1..n -> ItemChoices] : n \in 0..MaxInsights}

\* The replies tried on the insight validation: a failed completion, prose,
\* a document cut short, a document whose insights is no list, and every
\* document of ItemLists, bare, fenced, or within prose.
InsightReplies ==
    {Nothing, Some(<<W("x")>>),
     Some(<<P("{"), S("insights"), P(":"), P("["), P("}")>>),
     Some(<<P("{"), S("insights"), P(":"), Num, P("}")>>),
     Some(<<P("["), Num, P("]")>>)}
    \cup {Some(pre \o InsightsDoc(JoinToks(items, 1)) \o post) :
            items \in ItemLists,
            pre \in {<<>>, <<W("x")>>},
            post \in {<<>>}}
    \cup {Some(<<W("x"), Fence, W("json")>> \o InsightsDoc(JoinToks(items, 1)) \o <<Fence>>) :
            items \in ItemLists}

\* The lexemes of the texts given to the JSON extraction on its own: the
\* fence, the word json, the braces, the brackets and the key.
ExtractToks ==
    {Fence, W("json"), P("{"), P("}"), P("["), P("]"), S("insights")}

\* Every text of at most MaxExtractLen of these lexemes.
ExtractTexts == UNION {[1..n -> ExtractToks] : n \in 0..MaxExtractLen}

\* ---------------------------------------------------------------- pipeline

\* The outputs the model may give to the tag prompt of a pipeline run.
TagOutputs ==
    {<<"a">>,
     <<"a", " ", "[", "'", "a", "'", ",", "'", " ", "'", ",", "'", "a", "1", "'", "]">>}

\* The outputs the model may give to the insight prompt of a pipeline run:
\* prose, a fenced document of three items (one with an unknown trend and a
\* data that is no list, one without context), a document cut short.
InsightOutputs ==
    {<<W("x")>>,
     <<W("x"), Fence, W("json")>>
        \o InsightsDoc(ItemToks("sideways", TRUE, FALSE) \o <<P(",")>>
                       \o ItemToks("up", FALSE, TRUE) \o <<P(",")>>
                       \o ItemToks("down", TRUE, TRUE))
        \o <<Fence>>,
     <<P("{"), S("insights"), P(":"), P("["), P("}")>>}

\* The state a task starts from (lines 707-712), at the graph's entry point.
InitialState(payload) ==
    [pc |-> "load_data",
     data |-> payload, loaded_data |-> <<>>, dataframe |-> Nothing,
     analysis |-> <<>>, response |-> <<>>, tags |-> <<>>,
     structured_insights |-> <<>>, error |-> None, session_id |-> None,
     df_result |-> Nothing, index |-> 0, combined_analysis |-> <<>>,
     chunk_ok |-> <<>>, llm_calls |-> <<>>, store_calls |-> <<>>,
     status |-> 0, resp |-> Nothing]

\* The ids uuid4 can give: those no stored blob or record carries.
FreshIds == SessionIds \ (DOMAIN sessions \cup {p[2] : p \in DOMAIN blobs})

\* A request whose body fails validation is answered 422.
Refuse(r) ==
    /\ run[r].pc = "load_data"
    /\ ~IsValidRequest(run[r].data)
    /\ run' = [run EXCEPT ![r] = [@ EXCEPT !.pc = "done", !.status = 422]]
    /\ UNCHANGED <<sessions, blobs, columnDefault, lastProcessed, tagCase, tagOut, insightCase, insightOut, chat, fetched, extracted>>

\* load_data_node: no await inside, so one step.  An exception leaves the
\* graph and /invoke answers 500 (lines 743-746).
LoadData(r) ==
    /\ run[r].pc = "load_data"
    /\ IsValidRequest(run[r].data)
    /\ \E env \in LoadEnvs, id \in FreshIds :
         LET st == run[r]
             out == load_data_node(st, env, id)
         IN  /\ blobs' = IF out.upload = Nothing THEN blobs
                         ELSE (out.upload[1].path :> out.upload[1].bytes) @@ blobs
             /\ sessions' = IF out.insert = Nothing THEN sessions
                            ELSE (out.insert[1].session_id :> InsertedRow(out.insert[1]))
                                 @@ sessions
             /\ run' = [run EXCEPT ![r] =
                   IF out.raised
                   THEN [st EXCEPT !.pc = "done", !.status = 500]
                   ELSE [st EXCEPT !.pc = "analyze_data",
                                   !.loaded_data = out.loaded_data,
                                   !.dataframe = out.dataframe,
                                   !.session_id = out.session_id,
                                   !.error = out.error,
                                   !.df_result = out.df_result]]
    /\ UNCHANGED <<columnDefault, lastProcessed, tagCase, tagOut, insightCase, insightOut, chat, fetched, extracted>>

\* analyze_data_node up to its first await (lines 291-349): the early
\* returns, or the request for chunk 1.
AnalyzeStart(r) ==
    /\ run[r].pc = "analyze_data"
    /\ LET st == run[r]
           data == st.loaded_data
       IN  run' = [run EXCEPT ![r] =
             IF data = <<>>
             THEN [st EXCEPT !.pc = "categorize_insight", !.analysis = NoDataText]
             ELSE IF Headers(data) = <<>>
             THEN [st EXCEPT !.pc = "categorize_insight", !.analysis = NoHeadersText]
             ELSE [st EXCEPT !.pc = "chunk_wait", !.index = 0,
                             !.combined_analysis = <<>>,
                             !.llm_calls = Append(@, "chunk")]]
    /\ UNCHANGED <<sessions, blobs, columnDefault, lastProcessed, tagCase, tagOut, insightCase, insightOut, chat, fetched, extracted>>

\* The completion of chunk number index + 1 returns or raises (lines
\* 348-355); then the next chunk's request, or after the last chunk the
\* store update and the node's return (lines 357-374).
ChunkReturn(r) ==
    /\ run[r].pc = "chunk_wait"
    /\ \E ok \in BOOLEAN :
         LET st == run[r]
             combined == Append(st.combined_analysis, ChunkEntry(st.index, ok))
             sid == st.session_id
         IN  IF st.index + 1 < Len(Chunks(st.loaded_data))
             THEN /\ run' = [run EXCEPT ![r] =
                        [st EXCEPT !.index = @ + 1,
                                   !.combined_analysis = combined,
                                   !.chunk_ok = Append(@, ok),
                                   !.llm_calls = Append(@, "chunk")]]
                  /\ UNCHANGED sessions
             ELSE IF sid # None
             THEN \E answer \in UpdateAnswers(sessions, sid) :
                    /\ sessions' = IF answer = "ok"
                                   THEN UpdateField(sessions, sid, "initial_analysis",
                                                    Some(combined))
                                   ELSE sessions
                    /\ run' = [run EXCEPT ![r] =
                          [st EXCEPT !.pc = "categorize_insight",
                                     !.combined_analysis = combined,
                                     !.chunk_ok = Append(@, ok),
                                     !.analysis = combined,
                                     !.store_calls = Append(@,
                                         <<"initial_analysis", answer = "ok">>)]]
             ELSE /\ run' = [run EXCEPT ![r] =
                        [st EXCEPT !.pc = "categorize_insight",
                                   !.combined_analysis = combined,
                                   !.chunk_ok = Append(@, ok),
                                   !.analysis = combined]]
                  /\ UNCHANGED sessions
    /\ UNCHANGED <<blobs, columnDefault, lastProcessed, tagCase, tagOut, insightCase, insightOut, chat, fetched, extracted>>

\* categorize_insight_node up to its await (lines 380-401).
CategorizeStart(r) ==
    /\ run[r].pc = "categorize_insight"
    /\ run' = [run EXCEPT ![r] =
          IF NeedsTagCall(run[r].analysis)
          THEN [@ EXCEPT !.pc = "tag_wait", !.llm_calls = Append(@, "tags")]
          ELSE [@ EXCEPT !.pc = "parse_insights", !.tags = <<>>]]
    /\ UNCHANGED <<sessions, blobs, columnDefault, lastProcessed, tagCase, tagOut, insightCase, insightOut, chat, fetched, extracted>>

\* The tag completion returns or raises; the rest of the node (402-433).
TagReturn(r) ==
    /\ run[r].pc = "tag_wait"
    /\ \E reply \in {Nothing} \cup {Some(t) : t \in TagOutputs} :
         LET res == TagsOfReply(reply) IN
         run' = [run EXCEPT ![r] =
             IF res.raised THEN [@ EXCEPT !.pc = "done", !.status = 500]
             ELSE [@ EXCEPT !.pc = "parse_insights", !.tags = res.tags]]
    /\ UNCHANGED <<sessions, blobs, columnDefault, lastProcessed, tagCase, tagOut, insightCase, insightOut, chat, fetched, extracted>>

\* parse_insights_node up to its await (lines 436-484): with no analysis
\* text the empty list is stored and returned.
ParseInsightsStart(r) ==
    /\ run[r].pc = "parse_insights"
    /\ LET st == run[r]
           sid == st.session_id
       IN  IF st.analysis # <<>>
           THEN /\ run' = [run EXCEPT ![r] =
                      [st EXCEPT !.pc = "insight_wait",
                                 !.llm_calls = Append(@, "insights")]]
                /\ UNCHANGED sessions
           ELSE IF sid # None
           THEN \E answer \in UpdateAnswers(sessions, sid) :
                  /\ sessions' = IF answer = "ok"
                                 THEN UpdateField(sessions, sid, "categorized_insights",
                                                  Some(<<>>))
                                 ELSE sessions
                  /\ run' = [run EXCEPT ![r] =
                        [st EXCEPT !.pc = "respond", !.structured_insights = <<>>,
                                   !.store_calls = Append(@,
                                       <<"categorized_insights", answer = "ok">>)]]
           ELSE /\ run' = [run EXCEPT ![r] =
                      [st EXCEPT !.pc = "respond", !.structured_insights = <<>>]]
                /\ UNCHANGED sessions
    /\ UNCHANGED <<blobs, columnDefault, lastProcessed, tagCase, tagOut, insightCase, insightOut, chat, fetched, extracted>>

\* An insight extractor whose handler for a failed completion returns the
\* empty list without storing it.
InsightReturnSilent(r) ==
    /\ run[r].pc = "insight_wait"
    /\ \E reply \in {Nothing} \cup {Some(t) : t \in InsightOutputs} :
         LET st == run[r]
             sid == st.session_id
             final_insights == InsightsOfReply(reply)
         IN  IF sid # None /\ reply # Nothing
             THEN \E answer \in UpdateAnswers(sessions, sid) :
                    /\ sessions' = IF answer = "ok"
                                   THEN UpdateField(sessions, sid, "categorized_insights",
                                                    Some(final_insights))
                                   ELSE sessions
                    /\ run' = [run EXCEPT ![r] =
                          [st EXCEPT !.pc = "respond",
                                     !.structured_insights = final_insights,
                                     !.store_calls = Append(@,
                                         <<"categorized_insights", answer = "ok">>)]]
             ELSE /\ run' = [run EXCEPT ![r] =
                        [st EXCEPT !.pc = "respond",
                                   !.structured_insights = final_insights]]
                  /\ UNCHANGED sessions
    /\ UNCHANGED <<blobs, columnDefault, lastProcessed, tagCase, tagOut, insightCase, insightOut, chat, fetched, extracted>>

\* The insight completion returns or raises; extraction, validation and the
\* store update of the final list (lines 485-586).
InsightReturn(r) ==
    /\ run[r].pc = "insight_wait"
    /\ \E reply \in {Nothing} \cup {Some(t) : t \in InsightOutputs} :
         LET st == run[r]
             sid == st.session_id
             final_insights == InsightsOfReply(reply)
         IN  IF sid # None
             THEN \E answer \in UpdateAnswers(sessions, sid) :
                    /\ sessions' = IF answer = "ok"
                                   THEN UpdateField(sessions, sid, "categorized_insights",
                                                    Some(final_insights))
                                   ELSE sessions
                    /\ run' = [run EXCEPT ![r] =
                          [st EXCEPT !.pc = "respond",
                                     !.structured_insights = final_insights,
                                     !.store_calls = Append(@,
                                         <<"categorized_insights", answer = "ok">>)]]
             ELSE /\ run' = [run EXCEPT ![r] =
                        [st EXCEPT !.pc = "respond",
                                   !.structured_insights = final_insights]]
                  /\ UNCHANGED sessions
    /\ UNCHANGED <<blobs, columnDefault, lastProcessed, tagCase, tagOut, insightCase, insightOut, chat, fetched, extracted>>

\* A response that drops the error field.
InvokeResponseNoError(st) ==
    [session_id |-> st.session_id,
     analysis |-> st.analysis,
     insights |-> st.structured_insights,
     tags |-> st.tags,
     response |-> st.response,
     error |-> None]

\* The InvokeResponse of lines 733-742 for a final state.
InvokeResponse(st) ==
    [session_id |-> st.session_id,
     analysis |-> st.analysis,
     insights |-> st.structured_insights,
     tags |-> st.tags,
     response |-> st.response,
     error |-> st.error]

\* respond_node (lines 635-642) and the rest of /invoke (lines 715-742): the
\* globals are set when the final state has a table, and the response is
\* returned.
Respond(r) ==
    /\ run[r].pc = "respond"
    /\ LET st == [run[r] EXCEPT !.response = run[r].analysis] IN
       /\ run' = [run EXCEPT ![r] =
             [st EXCEPT !.pc = "done", !.status = 200,
                        !.resp = Some(InvokeResponse(st))]]
       /\ lastProcessed' =
             IF st.dataframe # Nothing
             THEN [df |-> st.dataframe, analysis |-> st.analysis,
                   session_id |-> st.session_id]
             ELSE lastProcessed
    /\ UNCHANGED <<sessions, blobs, columnDefault, tagCase, tagOut, insightCase, insightOut, chat, fetched, extracted>>

\* Lines 974-983 of get_session_data: a stored JSON value that is not a
\* list (null) reads as the empty list.
AsList(v) == IF v = Nothing THEN <<>> ELSE v[1]

\* The SessionDataResponse of lines 985-991 for a fetched row.
SessionDataResponse(row) ==
    [session_id |-> row.session_id,
     dataframe_storage_path |-> row.dataframe_storage_path,
     initial_analysis |-> row.initial_analysis,
     chat_history |-> AsList(row.chat_history),
     categorized_insights |-> AsList(row.categorized_insights)]

\* get_session_data (lines 958-998) when the fetch answers as given: the
\* status and the body returned.  The try has one clause, except Exception
\* (lines 993-998), and an HTTPException is an Exception: an exception of
\* the fetch and the HTTPException(404) that line 970 raises for a result
\* without data are both caught there and answered 500.
get_session_data(tbl, id, fetch) ==
    IF fetch = "raises"
    THEN [session_id |-> id, status |-> 500, body |-> Nothing]
    ELSE IF fetch = "nodata"
    THEN [session_id |-> id, status |-> 500, body |-> Nothing]
    ELSE [session_id |-> id, status |-> 200,
          body |-> Some(SessionDataResponse(tbl[id]))]

\* ------------------------------------------------------------------- chat

\* The follow-up requests (POST /chat) in flight.
Chats == {"c1", "c2"}

\* The questions a request may carry.
Questions == {<<"question", "a">>, <<"question", "b">>}

\* A read that turns the row index into a column of its own.
ReadParquetIndexed(bytes) == DataFrame(<<"index">> \o bytes.schema, bytes.num_rows)

\* pd.read_parquet(io.BytesIO(df_bytes)) (line 783): the table of the bytes.
ReadParquet(bytes) == DataFrame(bytes.schema, bytes.num_rows)

\* A turn of the stored chat history.
Turn(role, content) == [role |-> role, content |-> content]

\* The outputs of the agent: the final answer the model wrote to question
\* q, and the text the executor gives when it stops at the iteration limit.
FinalAnswer(q) == <<"answer", q>>
StoppedText == <<"Agent stopped due to iteration limit or time limit.">>

\* Line 930: the fallback text when the agent's result has no output.
DefaultText == <<"I could not process your request">>

\* Line 930: response.get("output", default).
ResponseContent(result) == IF result = Nothing THEN DefaultText ELSE result[1]

\* A history that gets the user turn only.
updated_db_history_partial(existing, question, answer) ==
    existing \o <<Turn("user", question)>>

\* A history that keeps only the new turns.
updated_db_history_fresh(existing, question, answer) ==
    <<Turn("user", question), Turn("assistant", answer)>>

\* Lines 935-938: existing_db_history + [user turn, assistant turn].
updated_db_history(existing, question, answer) ==
    existing \o <<Turn("user", question), Turn("assistant", answer)>>

\* The prior-turn lists a client may send along (payload.history).
ClientHistories == {<<>>, <<Turn("user", <<"client">>)>>}

\* A history taken from the request.
existing_db_history_sent(stored, sent) == Some(sent)

\* Lines 757-758 and 775: the history the handler works with is the stored
\* one; payload.history is not read.
existing_db_history(stored, sent) == stored

\* A message of the conversation memory.
Message(type, content) == [type |-> type, content |-> content]

\* A memory that drops the oldest turn.
messages_for_memory_short(initial_analysis_context, history) ==
    [i \in 1..(Len(history) - 1) |->
        Message(IF history[i + 1].role = "user" THEN "human" ELSE "ai",
                history[i + 1].content)]

\* Lines 808-819: a system message with the initial analysis when that is
\* not empty, then one message per stored turn whose role is user or
\* assistant, in stored order.
messages_for_memory(initial_analysis_context, history) ==
    LET known == SelectSeq(history, LAMBDA m : m.role \in {"user", "assistant"})
    IN  (IF initial_analysis_context # Nothing /\ initial_analysis_context[1] # <<>>
         THEN <<Message("system",
                        <<"Initial Data Analysis: ", initial_analysis_context[1]>>)>>
         ELSE <<>>)
        \o [i \in 1..Len(known) |->
               Message(IF known[i].role = "user" THEN "human" ELSE "ai",
                       known[i].content)]

\* What the select(...).single().execute() of line 767 may answer: the row
\* or an exception for a row that exists; no data or an exception for one
\* that does not.
FetchAnswers(tbl, id) ==
    IF id \in DOMAIN tbl THEN {"ok", "raises"} ELSE {"nodata", "raises"}

\* What the download of line 778 may answer.
DownloadAnswers(bucket, path) ==
    IF path \in DOMAIN bucket THEN {"bytes", "empty", "raises"} ELSE {"empty", "raises"}

\* A request that has not been sent.
IdleChat ==
    [pc |-> "idle", session_id |-> None, question |-> <<>>, history |-> <<>>,
     existing_db_history |-> Nothing, initial_analysis_context |-> Nothing,
     messages_for_memory |-> Nothing, updated_db_history |-> Nothing,
     current_df |-> Nothing, from_globals |-> FALSE, iterations |-> 0, llm_calls |-> 0,
     store_calls |-> <<>>, status |-> 0, response |-> Nothing]

\* A request for session id with a question and a prior-turn list, at the
\* start of the handler.
NewChat(id, question, history) ==
    [IdleChat EXCEPT !.pc = "start", !.session_id = id, !.question = question,
                     !.history = history]

\* The request ends with an HTTP error.
Fail(c, code) == chat' = [chat EXCEPT ![c] = [@ EXCEPT !.pc = "done", !.status = code]]

\* A first try that swallows every failure and leaves no table.
SessionContextSilent(tbl, bucket, id, fetch, download, parquet) ==
    [raised |-> 0, current_df |-> Nothing, initial_analysis_context |-> Nothing,
     existing_db_history |-> Some(<<>>), from_globals |-> FALSE]

\* The first try of chat_with_insight (lines 765-790) when the fetch, the
\* download and read_parquet answer as given: the HTTP error it raises (0
\* for none) and the locals it sets.  Every HTTPException is re-raised; any
\* other exception is answered 500.
SessionContext(tbl, bucket, id, fetch, download, parquet) ==
    LET Raise(code) ==
            [raised |-> code, current_df |-> Nothing,
             initial_analysis_context |-> Nothing,
             existing_db_history |-> Some(<<>>), from_globals |-> FALSE]
    IN  IF fetch = "raises" THEN Raise(500)
        ELSE IF fetch = "nodata" THEN Raise(404)
        ELSE IF download # "bytes" \/ parquet = "raises" THEN Raise(500)
        ELSE [raised |-> 0,
              current_df |-> Some(ReadParquet(bucket[tbl[id].dataframe_storage_path])),
              initial_analysis_context |-> tbl[id].initial_analysis,
              existing_db_history |-> tbl[id].chat_history,
              from_globals |-> FALSE]

\* Lines 794-803: without a table the globals of the last /invoke are used
\* when they belong to the session asked for; else the request is refused.
Fallback(ctx, id) ==
    IF ctx.current_df # Nothing THEN ctx
    ELSE IF id = lastProcessed.session_id /\ lastProcessed.df # Nothing
    THEN [ctx EXCEPT !.current_df = lastProcessed.df,
                     !.initial_analysis_context = Some(lastProcessed.analysis),
                     !.from_globals = TRUE]
    ELSE [ctx EXCEPT !.raised = 400]

\* A follow-up question about session id arrives at /chat.
ChatRequest(c) ==
    /\ chat[c].pc = "idle"
    /\ \E id \in SessionIds, question \in Questions, history \in ClientHistories :
         chat' = [chat EXCEPT ![c] = NewChat(id, question, history)]
    /\ UNCHANGED <<sessions, blobs, columnDefault, lastProcessed, run, tagCase, tagOut,
                   insightCase, insightOut, fetched, extracted>>

\* chat_with_insight up to its await (lines 749-924): the record is fetched,
\* the blob downloaded and read, the memory built from the stored history
\* (a history that is no list cannot be iterated: 500) and the agent
\* invoked.
ChatStart(c) ==
    /\ chat[c].pc = "start"
    /\ LET st == chat[c]
           id == st.session_id
       IN  \E fetch \in FetchAnswers(sessions, id) :
           \E download \in IF fetch = "ok"
                            THEN DownloadAnswers(blobs, sessions[id].dataframe_storage_path)
                            ELSE {"empty"},
              parquet \in IF fetch = "ok" THEN {"ok", "raises"} ELSE {"ok"} :
             LET first == SessionContext(sessions, blobs, id, fetch, download, parquet)
                 ctx == IF first.raised # 0 THEN first ELSE Fallback(first, id)
                 existing == existing_db_history(ctx.existing_db_history, st.history)
             IN  IF ctx.raised # 0 THEN Fail(c, ctx.raised)
                 ELSE IF existing = Nothing THEN Fail(c, 500)
                 ELSE chat' = [chat EXCEPT ![c] =
                        [st EXCEPT !.pc = "agent",
                                   !.initial_analysis_context = ctx.initial_analysis_context,
                                   !.existing_db_history = existing,
                                   !.messages_for_memory =
                                       Some(messages_for_memory(
                                                ctx.initial_analysis_context, existing[1])),
                                   !.current_df = ctx.current_df,
                                   !.from_globals = ctx.from_globals,
                                   !.iterations = 0,
                                   !.llm_calls = 1]]
    /\ UNCHANGED <<sessions, blobs, columnDefault, lastProcessed, run, tagCase, tagOut,
                   insightCase, insightOut, fetched, extracted>>

\* Lines 930-955, once the agent has returned result to the handler whose
\* locals are st: the history is written and the answer returned.  An
\* update that raises is caught by the handler of lines 952-955 and
\* answered 500.
ChatFinish(c, st, result) ==
    LET id == st.session_id
        response_content == ResponseContent(result)
        updated == updated_db_history(st.existing_db_history[1], st.question,
                                      response_content)
    IN  \E answer \in UpdateAnswers(sessions, id) :
          /\ sessions' = IF answer = "ok"
                         THEN UpdateField(sessions, id, "chat_history", Some(updated))
                         ELSE sessions
          /\ chat' = [chat EXCEPT ![c] =
                IF answer = "raises"
                THEN [st EXCEPT !.pc = "done", !.status = 500,
                                !.updated_db_history = Some(updated),
                                !.store_calls = Append(@, <<"chat_history", FALSE>>)]
                ELSE [st EXCEPT !.pc = "done", !.status = 200,
                                !.response = Some(response_content),
                                !.updated_db_history = Some(updated),
                                !.store_calls = Append(@, <<"chat_history", answer = "ok">>)]]

\* The model's reply to one call of the agent loop arrives (lines 924-927,
\* with max_iterations of line 911): an exception leaves the loop and is
\* answered 500; a final answer ends the loop; an action or a reply that
\* does not parse makes one more iteration, and at the limit the executor
\* stops with its own text.
AgentCycle(c) ==
    /\ chat[c].pc = "agent"
    /\ chat[c].iterations < max_iterations
    /\ \E reply \in {"final", "action", "unparsable", "raises"} :
         IF reply = "raises"
         THEN Fail(c, 500) /\ UNCHANGED sessions
         ELSE IF reply = "final"
         THEN ChatFinish(c, chat[c], Some(FinalAnswer(chat[c].question)))
         ELSE IF chat[c].iterations + 1 = max_iterations
         THEN ChatFinish(c, [chat[c] EXCEPT !.iterations = @ + 1], Some(StoppedText))
         ELSE /\ chat' = [chat EXCEPT ![c] =
                    [@ EXCEPT !.iterations = @ + 1, !.llm_calls = @ + 1]]
              /\ UNCHANGED sessions
    /\ UNCHANGED <<blobs, columnDefault, lastProcessed, run, tagCase, tagOut,
                   insightCase, insightOut, fetched, extracted>>

\* GET /session/{session_id}: no await inside, so one step.
GetSessionData ==
    /\ \E id \in SessionIds :
         \E fetch \in FetchAnswers(sessions, id) :
            fetched' = Some(get_session_data(sessions, id, fetch))
    /\ UNCHANGED <<sessions, blobs, columnDefault, lastProcessed, run, tagCase, tagOut,
                   insightCase, insightOut, chat, extracted>>

\* The store is empty and the column default is fixed.
InitStore ==
    /\ sessions = [s \in {} |-> s]
    /\ blobs = [p \in {} |-> p]
    /\ columnDefault \in {Nothing, Some(<<>>)}
    /\ lastProcessed = [df |-> Nothing, analysis |-> <<>>, session_id |-> None]

\* No request has been sent.
Idle == [InitialState(List(<<>>)) EXCEPT !.pc = "idle"]

\* No call of the tag node on its own.
NoTagCase == [analysis |-> <<>>, reply |-> Nothing]

\* One request, of any payload; the second task is never sent.
Init ==
    /\ InitStore
    /\ \E p \in Payloads :
         run = [r \in Runs |->
                  IF r = "r1" THEN InitialState(p) ELSE Idle]
    /\ tagCase = NoTagCase
    /\ tagOut = Nothing
    /\ insightCase = Nothing
    /\ insightOut = Nothing
    /\ chat = [c \in Chats |-> IdleChat]
    /\ fetched = Nothing
    /\ extracted = Nothing

\* Two concurrent requests.
InitTwo ==
    /\ InitStore
    /\ \E p1 \in TwoPayloads, p2 \in {List(Rows(1))} :
         run = [r \in Runs |-> InitialState(IF r = "r1" THEN p1 ELSE p2)]
    /\ tagCase = NoTagCase
    /\ tagOut = Nothing
    /\ insightCase = Nothing
    /\ insightOut = Nothing
    /\ chat = [c \in Chats |-> IdleChat]
    /\ fetched = Nothing
    /\ extracted = Nothing

\* The tag node on its own, for any analysis text and any reply.
InitTags ==
    /\ InitStore
    /\ run = [r \in Runs |-> Idle]
    /\ tagCase \in [analysis : {<<>>, NoDataText}, reply : TagReplies]
    /\ tagOut = Nothing
    /\ insightCase = Nothing
    /\ insightOut = Nothing
    /\ chat = [c \in Chats |-> IdleChat]
    /\ fetched = Nothing
    /\ extracted = Nothing

\* One call of categorize_insight_node.
TagExtract ==
    /\ tagOut = Nothing
    /\ tagOut' = Some(categorize_insight_node(tagCase.analysis, tagCase.reply))
    /\ UNCHANGED <<sessions, blobs, columnDefault, lastProcessed, run, tagCase,
                   insightCase, insightOut, chat, fetched, extracted>>

\* The insight validation on its own, for any reply.
InitInsights ==
    /\ InitStore
    /\ run = [r \in Runs |-> Idle]
    /\ tagCase = NoTagCase
    /\ tagOut = Nothing
    /\ insightCase \in {Some(reply) : reply \in InsightReplies}
    /\ insightOut = Nothing
    /\ chat = [c \in Chats |-> IdleChat]
    /\ fetched = Nothing
    /\ extracted = Nothing

\* One run of lines 484-536 with the handlers of 558-586.
InsightExtract ==
    /\ insightCase # Nothing
    /\ insightOut = Nothing
    /\ insightOut' = Some(InsightsOfReply(insightCase[1]))
    /\ UNCHANGED <<sessions, blobs, columnDefault, lastProcessed, run, tagCase, tagOut,
                   insightCase, chat, fetched, extracted>>

\* The JSON extraction on its own, for any text of a reply.
InitExtract ==
    /\ InitStore
    /\ run = [r \in Runs |-> Idle]
    /\ tagCase = NoTagCase
    /\ tagOut = Nothing
    /\ insightCase \in {Some(Some(text)) : text \in ExtractTexts}
    /\ insightOut = Nothing
    /\ chat = [c \in Chats |-> IdleChat]
    /\ fetched = Nothing
    /\ extracted = Nothing

\* Line 491: json_str = extract_json_from_text(content).
ExtractJson ==
    /\ insightCase # Nothing
    /\ insightCase[1] # Nothing
    /\ extracted = Nothing
    /\ extracted' = Some(extract_json_from_text(insightCase[1][1]))
    /\ UNCHANGED <<sessions, blobs, columnDefault, lastProcessed, run, tagCase, tagOut,
                   insightCase, insightOut, chat, fetched>>

\* The table of a one-row request and the analysis of its only chunk.
StoredFrame == DataFrame(ColumnsOf(Rows(1)), 1)
StoredAnalysis == <<ChunkEntry(0, TRUE)>>

\* The store and the globals as one completed /invoke of one row leaves
\* them (session u1, its blob, an empty insight list, and its analysis, or
\* null when the analyzer's update failed), and no follow-up question asked
\* yet.
InitChat ==
    /\ columnDefault \in {Nothing, Some(<<>>)}
    /\ \E stored \in {Nothing, Some(StoredAnalysis)} :
         sessions =
            [s \in {"u1"} |->
               [InsertedRow(SessionData("u1", "Directly provided data",
                                        DfStoragePath("u1")))
                   EXCEPT !.initial_analysis = stored,
                          !.categorized_insights = Some(<<>>)]]
    /\ blobs = [q \in {DfStoragePath("u1")} |-> ToParquet(StoredFrame)]
    /\ lastProcessed = [df |-> Some(StoredFrame), analysis |-> StoredAnalysis,
                        session_id |-> "u1"]
    /\ run = [r \in Runs |-> Idle]
    /\ tagCase = NoTagCase
    /\ tagOut = Nothing
    /\ insightCase = Nothing
    /\ insightOut = Nothing
    /\ chat = [c \in Chats |-> IdleChat]
    /\ fetched = Nothing
    /\ extracted = Nothing

\* The requests of the round trip: rows of one shape, rows of two shapes, a
\* pointer to a spreadsheet, and a body that is refused.
RoundPayloads == {List(Rows(1)), List(<<Row, RowB>>), List(<<Pointer>>), NonList}

\* One /invoke request and, at any moment, one follow-up question.
InitRound ==
    /\ InitStore
    /\ \E p \in RoundPayloads :
         run = [r \in Runs |->
                  IF r = "r1" THEN InitialState(p) ELSE Idle]
    /\ tagCase = NoTagCase
    /\ tagOut = Nothing
    /\ insightCase = Nothing
    /\ insightOut = Nothing
    /\ chat = [c \in Chats |-> IdleChat]
    /\ fetched = Nothing
    /\ extracted = Nothing

Next ==
    \E r \in Runs :
        \/ Refuse(r)
        \/ LoadData(r)
        \/ AnalyzeStart(r)
        \/ ChunkReturn(r)
        \/ CategorizeStart(r)
        \/ TagReturn(r)
        \/ ParseInsightsStart(r)
        \/ InsightReturn(r)
        \/ Respond(r)

Spec == Init /\ [][Next]_vars

SpecTwo == InitTwo /\ [][Next]_vars

SpecTags == InitTags /\ [][TagExtract]_vars

SpecInsights == InitInsights /\ [][InsightExtract]_vars

SpecExtract == InitExtract /\ [][ExtractJson]_vars

\* The steps of request r.
RunStep(r) ==
    \/ Refuse(r)
    \/ LoadData(r)
    \/ AnalyzeStart(r)
    \/ ChunkReturn(r)
    \/ CategorizeStart(r)
    \/ TagReturn(r)
    \/ ParseInsightsStart(r)
    \/ InsightReturn(r)
    \/ Respond(r)

\* The event loop runs every request that can take a step, and every
\* awaited completion returns or raises.
SpecFair == Spec /\ \A r \in Runs : WF_vars(RunStep(r))

NextChat ==
    \E c \in Chats :
        \/ ChatRequest(c)
        \/ ChatStart(c)
        \/ AgentCycle(c)

SpecChat == InitChat /\ [][NextChat]_vars

\* One follow-up question, and reads of the session record at any moment.
NextGet ==
    \/ ChatRequest("c1")
    \/ ChatStart("c1")
    \/ AgentCycle("c1")
    \/ GetSessionData

SpecGet == InitChat /\ [][NextGet]_vars

NextRound ==
    \/ Next
    \/ ChatRequest("c1")
    \/ ChatStart("c1")
    \/ AgentCycle("c1")

SpecRound == InitRound /\ [][NextRound]_vars

\* ------------------------------------------------------------ data loader

\* Task r takes the step that runs load_data_node to its return.
LoadStep(r) == run[r].pc = "load_data" /\ run'[r].pc = "analyze_data"

\* The errors of a load that ends in download failure, parse failure, empty
\* table or a failure of serialization, upload or insert.
LoadFailures ==
    {ErrDownload, ErrDownloadEmpty, ErrExcelParse, ErrFrame, ErrEmpty, ErrStorage}

\* Every session record has, at the path it stores, a blob of a non-empty
\* table, and that path is the one keyed by its id.
SessionHasBlob ==
    \A s \in DOMAIN sessions :
        LET path == sessions[s].dataframe_storage_path IN
        /\ path = DfStoragePath(s)
        /\ path \in DOMAIN blobs
        /\ blobs[path].num_rows > 0
        /\ blobs[path].schema # <<>>

\* A load step that ends in one of the failures leaves the records alone.
FailedLoadKeepsSessions ==
    \A r \in Runs :
        (LoadStep(r) /\ run'[r].error \in LoadFailures) => sessions' = sessions

\* C1: a session record exists only if Data Loader parsed a non-empty table
\* and the blob upload for that session id succeeded before the insert; a
\* Data Loader run that ends in download failure, parse failure, empty table
\* or upload failure leaves the set of session records unchanged.
C1_SessionOnlyAfterBlob == []SessionHasBlob /\ [][FailedLoadKeepsSessions]_vars

\* One task has created its session and the other's load has failed in
\* storage: the records are those of the first alone.
C1_Witness ==
    \E r, q \in Runs :
        /\ r # q
        /\ run[r].session_id # None
        /\ run[q].pc = "analyze_data"
        /\ run[q].error = ErrStorage
        /\ DOMAIN sessions = {run[r].session_id}

\* Task r's load step parsed a non-empty table.
LoadsTable(r) ==
    /\ LoadStep(r)
    /\ run'[r].df_result # Nothing
    /\ ~IsEmptyFrame(run'[r].df_result[1])

\* Task r's step adds one new session id, one blob and one record whose
\* stored path is the path of that blob.
ProducesSession(r) ==
    LET id == run'[r].session_id IN
    /\ id # None
    /\ id \notin DOMAIN sessions
    /\ DOMAIN sessions' = DOMAIN sessions \cup {id}
    /\ DOMAIN blobs \subseteq DOMAIN blobs'
    /\ Cardinality(DOMAIN blobs') = Cardinality(DOMAIN blobs) + 1
    /\ sessions'[id].dataframe_storage_path \in DOMAIN blobs' \ DOMAIN blobs
    /\ \A s \in DOMAIN sessions : sessions'[s] = sessions[s]

\* Each session id has exactly one blob, its own.
OneBlobPerSession ==
    \A s \in DOMAIN sessions :
        /\ Cardinality({p \in DOMAIN blobs : p[2] = s}) = 1
        /\ sessions[s].dataframe_storage_path[2] = s
        /\ sessions[s].dataframe_storage_path \in DOMAIN blobs

\* C2 as stated: for every non-empty input table one Data Loader run
\* produces exactly one new session id, one blob and one record whose path
\* is the blob's, and each session id corresponds to exactly one blob.
C2_Original ==
    /\ [][\A r \in Runs : LoadsTable(r) => ProducesSession(r)]_vars
    /\ []OneBlobPerSession

\* C2, amended: for every non-empty input table whose serialization, upload
\* and insert all succeed (the load returns no error), one Data Loader run
\* produces exactly one new session id, distinct from every existing one,
\* one blob and one record whose stored path is that blob's; when they do
\* not, no record is added and at most one blob is left; and in every
\* reachable state each session id corresponds to exactly one blob.
C2_OneSessionPerTable ==
    /\ [][\A r \in Runs :
            LoadsTable(r) =>
                IF run'[r].error = None THEN ProducesSession(r)
                ELSE /\ run'[r].error = ErrStorage
                     /\ sessions' = sessions
                     /\ Cardinality(DOMAIN blobs') <= Cardinality(DOMAIN blobs) + 1]_vars
    /\ []OneBlobPerSession

\* Both tasks have loaded a table: two ids, two records, two blobs.
C2_Witness ==
    /\ Cardinality(DOMAIN sessions) = 2
    /\ Cardinality(DOMAIN blobs) = 2
    /\ \A r \in Runs : run[r].session_id \in DOMAIN sessions
    /\ run["r1"].session_id # run["r2"].session_id

\* The set of keys of a record.
KeySet(d) == {d.kv[i][1] : i \in 1..Len(d.kv)}

\* A non-empty list of records that all have the same keys.
IsUniformRecords(p) ==
    /\ IsValidRequest(p)
    /\ p.items # <<>>
    /\ \A i, j \in 1..Len(p.items) : KeySet(p.items[i]) = KeySet(p.items[j])

\* Task r is past its load (or was refused).
Loaded(r) == run[r].pc \notin {"idle", "load_data"}

\* Task r got an input error, no session id, and nothing is stored.
InputRefused(r) ==
    /\ run[r].status = 422 \/ (run[r].status # 500 /\ run[r].error # None)
    /\ run[r].session_id = None
    /\ DOMAIN sessions = {}
    /\ DOMAIN blobs = {}

\* C3 as stated: the accepted forms are one pointer entry with a path and
\* an inline list of uniform records; every other payload gets an input
\* error with no session id, no blob and no record.
C3_Original ==
    \A r \in Runs :
        (Loaded(r) /\ ~IsSupabaseFileInput(run[r].data)
                   /\ ~IsUniformRecords(run[r].data)) => InputRefused(r)

\* C3, amended: Data Loader takes one pointer entry (type supabase_excel
\* with a non-empty path) or any non-empty list of records, uniform or not,
\* which it reads as an inline table.  A body that is not a list of records
\* is refused by request validation and an empty list gets the input error
\* with session_id null; in both cases no blob and no record is written.
\* A list of records is never answered with an input error.
C3_InputForms ==
    \A r \in Runs :
        Loaded(r) =>
            IF IsValidRequest(run[r].data) /\ run[r].data.items # <<>>
            THEN run[r].status # 422 /\ run[r].error \notin {ErrNoInput, ErrFormat}
            ELSE InputRefused(r)

\* The empty list was submitted and answered with the input error.
C3_Witness ==
    \E r \in Runs :
        /\ run[r].pc = "done"
        /\ run[r].data = List(<<>>)
        /\ run[r].resp # Nothing
        /\ run[r].resp[1].error = ErrNoInput
        /\ run[r].resp[1].session_id = None

\* The pipeline-fatal errors of the loader.
FatalErrors == {ErrNoInput, ErrEmpty, ErrStorage}

CreatesRecord(r) == LoadStep(r) /\ run'[r].session_id # None

\* A read of the new record shows no analysis, no insights and no chat.
ReadsFresh(r) ==
    LET view == SessionDataResponse(sessions'[run'[r].session_id]) IN
    /\ view.initial_analysis = Nothing
    /\ view.categorized_insights = <<>>
    /\ view.chat_history = <<>>

\* C5 as stated: the inserted record has initial_analysis null,
\* categorized_insights [] and chat_history [], and a read right after
\* creation shows these three values.
C5_Original ==
    [][\A r \in Runs :
          CreatesRecord(r) =>
              LET row == sessions'[run'[r].session_id] IN
              /\ row.initial_analysis = Nothing
              /\ row.categorized_insights = Some(<<>>)
              /\ row.chat_history = Some(<<>>)
              /\ ReadsFresh(r)]_vars

\* C5, amended: the record Data Loader inserts sets initial_analysis to
\* null and chat_history to [] and gives no categorized_insights, which the
\* store fills with the column's default; a read of the session right after
\* creation shows initial_analysis null, categorized_insights [] and
\* chat_history [].
C5_FreshRecord ==
    [][\A r \in Runs :
          CreatesRecord(r) =>
              LET row == sessions'[run'[r].session_id] IN
              /\ row.initial_analysis = Nothing
              /\ row.categorized_insights = columnDefault
              /\ row.chat_history = Some(<<>>)
              /\ ReadsFresh(r)]_vars

\* A record was just created in a store whose column default is null.
C5_Witness ==
    \E r \in Runs :
        /\ run[r].pc = "analyze_data"
        /\ run[r].session_id \in DOMAIN sessions
        /\ sessions[run[r].session_id].categorized_insights = Nothing
        /\ sessions[run[r].session_id].initial_analysis = Nothing

\* ---------------------------------------------------------------- analyzer

\* Task r's analyze_data_node has returned, for a loaded table with rows.
Analyzed(r) ==
    /\ run[r].pc \in {"categorize_insight", "tag_wait", "parse_insights",
                       "insight_wait", "respond", "done"}
    /\ Len(run[r].loaded_data) >= 1

\* The number of chunk completions task r has requested.
ChunkCalls(r) ==
    Cardinality({i \in DOMAIN run[r].llm_calls : run[r].llm_calls[i] = "chunk"})

\* ceil(R / C)
CeilDiv(R, C) == (R + C - 1) \div C

\* Task r requested n chunk completions and its analysis is n chunk
\* entries labelled 1..n in that order.
HasChunkEntries(r, n) ==
    /\ ChunkCalls(r) = n
    /\ Len(run[r].analysis) = n
    /\ \A k \in 1..n :
          /\ run[r].analysis[k].label = k
          /\ run[r].analysis[k].kind \in {"Summary", "Error"}

\* C6 as stated: for a loaded table of R >= 1 rows and chunk size 100 the
\* analyzer issues exactly ceil(R/100) completion requests and the combined
\* analysis has exactly that many chunk entries, labelled 1..ceil(R/100) in
\* ascending order.
C6_Original ==
    \A r \in Runs :
        Analyzed(r) => HasChunkEntries(r, CeilDiv(Len(run[r].loaded_data), CHUNK_SIZE))

\* C6, amended: for a loaded table of R >= 1 rows whose first row has at
\* least one field, the analyzer issues exactly ceil(R/100) completion
\* requests and the combined analysis has exactly that many chunk entries,
\* labelled 1..ceil(R/100) in ascending order; when the first row has no
\* field it issues no request and returns the could-not-extract-headers
\* text.
C6_ChunkCount ==
    \A r \in Runs :
        Analyzed(r) =>
            IF Headers(run[r].loaded_data) # <<>>
            THEN HasChunkEntries(r, CeilDiv(Len(run[r].loaded_data), CHUNK_SIZE))
            ELSE ChunkCalls(r) = 0 /\ run[r].analysis = NoHeadersText

\* A table of more than two full chunks was analysed in three requests.
C6_Witness ==
    \E r \in Runs :
        /\ Analyzed(r)
        /\ Len(run[r].loaded_data) > 2 * CHUNK_SIZE
        /\ ChunkCalls(r) = 3
        /\ Len(run[r].analysis) = 3

\* C7: when the completion for chunk N fails the analyzer puts a
\* "Chunk N Error" entry at position N of the combined analysis, still
\* requests every later chunk, and completes with the entries of all
\* successful chunks kept.
C7_ChunkError ==
    \A r \in Runs :
        LET st == run[r]
            n == Len(Chunks(st.loaded_data))
        IN  /\ Len(st.combined_analysis) = Len(st.chunk_ok)
            /\ \A N \in DOMAIN st.chunk_ok :
                  st.combined_analysis[N] =
                      Paragraph(N, IF st.chunk_ok[N] THEN "Summary" ELSE "Error")
            /\ st.pc = "chunk_wait" =>
                  Len(st.chunk_ok) < n /\ ChunkCalls(r) = Len(st.chunk_ok) + 1
            /\ (Analyzed(r) /\ st.chunk_ok # <<>>) =>
                  /\ Len(st.chunk_ok) = n
                  /\ ChunkCalls(r) = n
                  /\ st.analysis = st.combined_analysis

\* The second of three chunks failed and the stage completed.
C7_Witness ==
    \E r \in Runs :
        /\ Analyzed(r)
        /\ run[r].chunk_ok = <<TRUE, FALSE, TRUE>>
        /\ run[r].analysis[2] = Paragraph(2, "Error")
        /\ run[r].analysis[3] = Paragraph(3, "Summary")

\* Task r's store update of initial_analysis was made, and the record holds
\* the returned analysis if the update succeeded and is untouched if not.
AnalysisStored(r) ==
    LET st == run[r] IN
    /\ st.store_calls # <<>>
    /\ st.store_calls[1][1] = "initial_analysis"
    /\ st.session_id \in DOMAIN sessions
    /\ sessions[st.session_id].initial_analysis =
          IF st.store_calls[1][2] THEN Some(st.analysis) ELSE Nothing
    /\ st.analysis # <<>>

\* C8 as stated: with a session id present the analyzer overwrites the
\* stored initial_analysis with the analysis it returns; if the update
\* fails the stage still completes and returns the same analysis.
C8_Original ==
    \A r \in Runs : (Analyzed(r) /\ run[r].session_id # None) => AnalysisStored(r)

\* C8, amended: with a session id present and a first row that has at
\* least one field, the analyzer overwrites the stored initial_analysis
\* with the combined analysis; if that update returns no data or raises,
\* the stage still completes and returns the same combined analysis.  When
\* the first row has no field the analyzer returns its text without
\* touching the store.
C8_AnalysisStored ==
    \A r \in Runs :
        (Analyzed(r) /\ run[r].session_id # None) =>
            IF Headers(run[r].loaded_data) # <<>>
            THEN AnalysisStored(r) /\ run[r].analysis = run[r].combined_analysis
            ELSE /\ sessions[run[r].session_id].initial_analysis = Nothing
                 /\ run[r].analysis = NoHeadersText

\* The update failed and the stage returned its analysis all the same.
C8_Witness ==
    \E r \in Runs :
        /\ Analyzed(r)
        /\ run[r].session_id \in DOMAIN sessions
        /\ run[r].store_calls # <<>>
        /\ run[r].store_calls[1] = <<"initial_analysis", FALSE>>
        /\ Len(run[r].analysis) = 2
        /\ sessions[run[r].session_id].initial_analysis = Nothing

\* ----------------------------------------------------------- tag extractor

\* C9 as stated: for every analysis text and every model output the tag
\* extractor returns between 0 and 10 tags.
C9_Original ==
    tagOut # Nothing => Len(tagOut[1].tags) \in 0..10

\* The call is one of those the claim lists: the completion failed, the
\* output has no bracketed list, or the list found does not evaluate.
Degraded(c) ==
    \/ c.reply = Nothing
    \/ SearchList(c.reply[1]) = Nothing
    \/ LiteralEval(SearchList(c.reply[1])[1]).exc # "none"

\* C10: the tag extractor never raises to the pipeline; when the model call
\* fails, the output has no bracketed list, the located substring does not
\* parse as a literal or parses to something that is not a list, the stage
\* returns exactly the empty tag list.
C10_NeverRaises ==
    tagOut # Nothing =>
        /\ ~tagOut[1].raised
        /\ Degraded(tagCase) => tagOut[1].tags = <<>>

\* The node ran on an output whose bracketed text is no literal, and gave
\* the empty list.
C10_Witness ==
    /\ tagOut # Nothing
    /\ NeedsTagCall(tagCase.analysis)
    /\ tagCase.reply # Nothing
    /\ SearchList(tagCase.reply[1]) # Nothing
    /\ LiteralEval(SearchList(tagCase.reply[1])[1]).exc = "SyntaxError"
    /\ tagOut[1] = [raised |-> FALSE, tags |-> <<>>]

\* ---------------------------------------------------------- insight extractor

\* An item has the five fields, a trend of the three names and a list as data.
IsValidInsight(x) ==
    /\ x.t = "obj"
    /\ \A f \in RequiredFields : HasField(x, f)
    /\ Field(x, "trend").t = "str"
    /\ Field(x, "trend").v \in {"up", "down", "stable"}
    /\ Field(x, "data").t = "arr"

\* C11: in every reachable state every item stored in any session's
\* categorized_insights has the five fields label, value, trend, context and
\* data, a trend in {up, down, stable} and a data field that is a list.
C11_StoredInsightsValid ==
    \A s \in DOMAIN sessions :
        LET stored == sessions[s].categorized_insights IN
        stored # Nothing => \A k \in 1..Len(stored[1]) : IsValidInsight(stored[1][k])

\* A session stores two items, the first with its trend and data replaced.
C11_Witness ==
    \E s \in DOMAIN sessions :
        LET stored == sessions[s].categorized_insights IN
        /\ stored # Nothing
        /\ Len(stored[1]) = 2
        /\ Field(stored[1][1], "trend") = JStr("stable")
        /\ Field(stored[1][1], "data") = JArr(<<>>)
        /\ Field(stored[1][2], "trend") = JStr("down")

\* The reply holds a document {"insights": [...]} that parses.
HasDocument(reply) ==
    /\ reply # Nothing
    /\ extract_json_from_text(reply[1]) # <<>>
    /\ JsonLoads(extract_json_from_text(reply[1])) # Nothing
    /\ JsonLoads(extract_json_from_text(reply[1]))[1].t = "obj"
    /\ HasField(JsonLoads(extract_json_from_text(reply[1]))[1], "insights")
    /\ Field(JsonLoads(extract_json_from_text(reply[1]))[1], "insights").t = "arr"

\* The items of that document, as the model wrote them.
ModelItems(reply) ==
    Field(JsonLoads(extract_json_from_text(reply[1]))[1], "insights").v

\* An item with the five required fields.
HasAllFields(x) == x.t = "obj" /\ \A f \in RequiredFields : HasField(x, f)

\* The kept item out is the model's item x, but for a trend that is not one
\* of the three names, which reads stable, and a data that is no list,
\* which reads [].
KeptAs(out, x) ==
    /\ out.t = "obj"
    /\ Len(out.v) = Len(x.v)
    /\ \A f \in {"label", "value", "context"} : Field(out, f) = Field(x, f)
    /\ Field(out, "trend") =
          IF Field(x, "trend").t = "str" /\ Field(x, "trend").v \in {"up", "down", "stable"}
          THEN Field(x, "trend") ELSE JStr("stable")
    /\ IF Field(x, "data").t = "arr"
       THEN Field(out, "data") = Field(x, "data")
       ELSE Field(out, "data") = JArr(<<>>)

\* C12: insight validation keeps every model-returned item that has the
\* five required fields, in the model's order and without adding items; an
\* item whose trend is outside {up, down, stable} is kept with trend stable,
\* so the validated list is the order-preserving sublist of the model's
\* items that have all required fields.
C12_ValidatedSublist ==
    (insightOut # Nothing /\ HasDocument(insightCase[1])) =>
        LET out == insightOut[1]
            kept == SelectSeq(ModelItems(insightCase[1]), HasAllFields)
        IN  /\ Len(out) = Len(kept)
            /\ \A k \in 1..Len(out) : KeptAs(out[k], kept[k])

\* Of three items the second lacks a field and the third has an unknown
\* trend: the first and the third are kept, the third reading stable.
C12_Witness ==
    /\ insightOut # Nothing
    /\ HasDocument(insightCase[1])
    /\ Len(ModelItems(insightCase[1])) = 3
    /\ HasAllFields(ModelItems(insightCase[1])[1])
    /\ ~HasAllFields(ModelItems(insightCase[1])[2])
    /\ HasAllFields(ModelItems(insightCase[1])[3])
    /\ Field(ModelItems(insightCase[1])[3], "trend") = JStr("sideways")
    /\ Len(insightOut[1]) = 2
    /\ Field(insightOut[1][2], "trend") = JStr("stable")

\* Task r's parse_insights_node has returned, for a run with a session id.
InsightsDone(r) ==
    /\ run[r].pc \in {"respond", "done"}
    /\ run[r].session_id # None

\* The answer of the last store update task r made.
LastStoreCall(r) == run[r].store_calls[Len(run[r].store_calls)]

\* C13 as stated: whenever the insight extractor finishes for a run with a
\* session id, the stored categorized_insights equals the list the stage
\* returned.
C13_Original ==
    \A r \in Runs :
        InsightsDone(r) =>
            sessions[run[r].session_id].categorized_insights
                = Some(run[r].structured_insights)

\* C13, amended: whenever the insight extractor finishes for a run with a
\* session id, on the success path and on every error path, it has issued
\* an update of categorized_insights with the list it returns (empty on
\* errors); when that update succeeds the stored value equals the returned
\* list, and when the update returns no data or raises the stage still
\* returns its list and the stored value stays what it was before the stage.
C13_InsightsStored ==
    \A r \in Runs :
        InsightsDone(r) =>
            /\ run[r].store_calls # <<>>
            /\ LastStoreCall(r)[1] = "categorized_insights"
            /\ sessions[run[r].session_id].categorized_insights =
                  IF LastStoreCall(r)[2] THEN Some(run[r].structured_insights)
                  ELSE columnDefault

\* The model call failed and the empty list was stored over a null.
C13_Witness ==
    \E r \in Runs :
        /\ InsightsDone(r)
        /\ columnDefault = Nothing
        /\ run[r].structured_insights = <<>>
        /\ run[r].analysis # <<>>
        /\ LastStoreCall(r) = <<"categorized_insights", TRUE>>
        /\ sessions[run[r].session_id].categorized_insights = Some(<<>>)

\* -------------------------------------------------------- follow-up chat

\* Follow-up c has been answered, and its session id has no record.
UnknownDone(c) ==
    chat[c].pc = "done" /\ chat[c].session_id \notin DOMAIN sessions

\* C14 as stated: a follow-up on a session id with no record is answered
\* HTTP 404 with no answer text, without calling the model, without using the
\* table cached in the process and without writing to any record.
C14_Original ==
    \A c \in Chats :
        UnknownDone(c) =>
            /\ chat[c].status = 404
            /\ chat[c].response = Nothing
            /\ chat[c].llm_calls = 0
            /\ ~chat[c].from_globals
            /\ chat[c].store_calls = <<>>

\* The loop of follow-up c ran to the cap without a final answer.
CapReached(c) == chat[c].pc = "done" /\ chat[c].iterations = max_iterations

\* C15 as stated: the reasoning loop of a follow-up makes at most 15 cycles,
\* with at most 15 model calls, and a follow-up whose loop reached the cap
\* without a final answer still returns a response text to the caller: it
\* does not fail.
C15_Original ==
    \A c \in Chats :
        /\ chat[c].iterations <= max_iterations
        /\ chat[c].llm_calls <= max_iterations
        /\ CapReached(c) => chat[c].status = 200 /\ chat[c].response # Nothing

\* Follow-up c takes the step that returns its answer to the caller.
Completes(c) ==
    chat[c].pc = "agent" /\ chat'[c].pc = "done" /\ chat'[c].status = 200

\* The stored history of c's session is still the one c read at its start.
Undisturbed(c) ==
    /\ chat[c].session_id \in DOMAIN sessions
    /\ sessions[chat[c].session_id].chat_history = chat[c].existing_db_history

\* The history c read, followed by its question and its answer.
Appended(st) ==
    st.existing_db_history[1]
        \o <<Turn("user", st.question), Turn("assistant", st.response[1])>>

\* The update of chat_history that follow-up c issued succeeded.
HistoryStored(st) == st.store_calls = << <<"chat_history", TRUE>> >>

\* C16 as stated: when a follow-up completes and no other follow-up wrote
\* the session's history since it was read, the stored chat_history is the
\* history read at the start followed by the user turn and the assistant turn.
C16_Original ==
    [][\A c \in Chats :
          Completes(c) /\ Undisturbed(c) =>
              sessions'[chat[c].session_id].chat_history = Some(Appended(chat'[c]))]_vars

\* The answered follow-ups on session s whose history update succeeded.
Answered(s) ==
    {c \in Chats : /\ chat[c].pc = "done"
                   /\ chat[c].status = 200
                   /\ chat[c].session_id = s
                   /\ HistoryStored(chat[c])}

\* No two of them read the same history: each started after the one before
\* it had written.
Sequential(s) ==
    \A c, d \in Answered(s) :
        c # d => chat[c].existing_db_history # chat[d].existing_db_history

\* The turns alternate, starting with the user.
Alternating(h) ==
    \A i \in 1..Len(h) :
        h[i].role = IF i % 2 = 1 THEN "user" ELSE "assistant"

\* After k sequential follow-ups the stored history has 2k alternating
\* turns, each follow-up's pair right after the history it read.
SequentialHistory ==
    \A s \in DOMAIN sessions :
        LET h == sessions[s].chat_history[1] IN
        /\ sessions[s].chat_history # Nothing
        /\ Alternating(h)
        /\ Sequential(s) =>
              /\ Len(h) = 2 * Cardinality(Answered(s))
              /\ \A c \in Answered(s) :
                    SubSeq(h, 1, Len(chat[c].existing_db_history[1]) + 2)
                        = Appended(chat[c])

\* C16, amended: when a follow-up completes and its history update
\* succeeded, the stored chat_history is the history it read followed by its
\* user turn and its assistant turn; when the update returned no data the
\* answer is returned and the records are left as they were; and after k
\* sequential follow-ups whose updates succeeded the history holds 2k turns
\* alternating user/assistant in question order.
C16_HistoryAppended ==
    /\ []SequentialHistory
    /\ [][\A c \in Chats :
             Completes(c) =>
                 IF HistoryStored(chat'[c])
                 THEN sessions'[chat[c].session_id].chat_history
                          = Some(Appended(chat'[c]))
                 ELSE sessions' = sessions]_vars

\* Two follow-ups on one session, the second started after the first had
\* written, have left four turns.
C16_Witness ==
    /\ Answered("u1") = Chats
    /\ Sequential("u1")
    /\ Len(sessions["u1"].chat_history[1]) = 4

\* The agent of follow-up c produced an answer and the update of
\* chat_history that followed failed: it returned no data or it raised.
PersistFailed(c) ==
    chat[c].pc = "done" /\ chat[c].store_calls = << <<"chat_history", FALSE>> >>

\* C17 as stated: when persisting the updated chat_history fails after the
\* answer was produced, by a failure result or by an exception, the follow-up
\* still returns the answer to the caller.
C17_Original ==
    \A c \in Chats :
        PersistFailed(c) => chat[c].status = 200 /\ chat[c].response # Nothing

\* Follow-ups c and d on one session both read the same history: each read
\* before the other wrote.
ReadSame(c, d) ==
    /\ c # d
    /\ chat[c].session_id = chat[d].session_id
    /\ chat[c].existing_db_history = chat[d].existing_db_history

\* C18: when two follow-ups on one session read the same chat_history
\* before either wrote, and both were answered with their updates succeeding,
\* the stored chat_history is the history read followed by the turn pair of
\* one of them only, the other pair is lost, and both callers have an answer.
C18_LostUpdate ==
    \A s \in DOMAIN sessions :
        \A c, d \in Answered(s) :
            ReadSame(c, d) =>
                /\ sessions[s].chat_history \in
                       {Some(Appended(chat[c])), Some(Appended(chat[d]))}
                /\ Len(sessions[s].chat_history[1])
                       = Len(chat[c].existing_db_history[1]) + 2
                /\ chat[c].response # Nothing
                /\ chat[d].response # Nothing

\* Both follow-ups on u1 were answered and stored their history, after both
\* had read the empty history; two turns are stored.
C18_Witness ==
    /\ Answered("u1") = Chats
    /\ ReadSame("c1", "c2")
    /\ chat["c1"].existing_db_history = Some(<<>>)
    /\ Len(sessions["u1"].chat_history[1]) = 2

\* ------------------------------------------------------------- round trip

\* Follow-up c has downloaded and read the table of its session.
TableRead(c) == chat[c].current_df # Nothing /\ ~chat[c].from_globals

Entered(r) == run[r].pc # "idle" /\ IsValidRequest(run[r].data)

\* Request r was answered with a response that has the analysis, tags and
\* insights fields.
Responded(r) ==
    /\ run[r].pc = "done"
    /\ run[r].status = 200
    /\ run[r].resp # Nothing
    /\ {"analysis", "tags", "insights"} \subseteq DOMAIN run[r].resp[1]

\* The node a position belongs to, in the order of the graph's edges; 6 is
\* the end of the request.
StageOf(pc) ==
    CASE pc = "load_data" -> 1
      [] pc \in {"analyze_data", "chunk_wait"} -> 2
      [] pc \in {"categorize_insight", "tag_wait"} -> 3
      [] pc \in {"parse_insights", "insight_wait"} -> 4
      [] pc = "respond" -> 5
      [] OTHER -> 6

\* A step of a validated request stays in its node or enters the next one.
NextStage(r) ==
    IsValidRequest(run[r].data) /\ run'[r].pc # run[r].pc =>
        StageOf(run'[r].pc) \in {StageOf(run[r].pc), StageOf(run[r].pc) + 1}

\* C20: every pipeline run goes through the nodes in order, whatever load,
\* model, parse and store failures occur, none of which ends the run early,
\* and in the end returns to the caller a response with the analysis, tags and
\* insights fields.
C20_AlwaysResponds ==
    /\ <>[](\A r \in Runs : Entered(r) => Responded(r))
    /\ [][\A r \in Runs : NextStage(r)]_vars

\* A run whose load failed and whose later nodes ran was answered, with the
\* error and empty tags and insights.
C20_Witness ==
    /\ Responded("r1")
    /\ run["r1"].error \in LoadFailures
    /\ run["r1"].resp[1].tags = <<>>
    /\ run["r1"].resp[1].insights = <<>>

\* ------------------------------------------------------- session lifecycle

\* Request r created a session record.
HasSession(r) == run[r].session_id \in DOMAIN sessions

\* The analyzer of request r has not returned yet.
BeforeAnalyzed(r) == run[r].pc \in {"analyze_data", "chunk_wait"}

\* The insight extractor of request r has not returned yet.
BeforeInsights(r) ==
    run[r].pc \in {"analyze_data", "chunk_wait", "categorize_insight", "tag_wait",
                   "parse_insights", "insight_wait"}

\* Request r issued an update of initial_analysis that succeeded.
AnalysisUpdateOk(r) ==
    \E i \in DOMAIN run[r].store_calls :
        run[r].store_calls[i] = <<"initial_analysis", TRUE>>

\* C21 as stated: for every created session the stored initial_analysis is
\* null from creation until the analyzer completes and non-null once it has
\* completed, and the stored categorized_insights is the empty list from
\* creation until the insight extractor completes.
C21_Original ==
    \A r \in Runs :
        HasSession(r) =>
            LET row == sessions[run[r].session_id] IN
            /\ BeforeAnalyzed(r) => row.initial_analysis = Nothing
            /\ Analyzed(r) => row.initial_analysis # Nothing
            /\ BeforeInsights(r) => row.categorized_insights = Some(<<>>)

\* C21, amended: for every created session the stored initial_analysis is
\* null from creation until the analyzer completes; once it has completed
\* the stored value is the returned analysis when the analyzer's update was
\* issued and succeeded, and still null when the update failed or was not
\* issued (first row without fields); the stored categorized_insights is the
\* column default (null or the empty list) from creation until the insight
\* extractor completes.
C21_Lifecycle ==
    \A r \in Runs :
        HasSession(r) =>
            LET row == sessions[run[r].session_id] IN
            /\ BeforeAnalyzed(r) => row.initial_analysis = Nothing
            /\ Analyzed(r) =>
                  row.initial_analysis =
                      IF AnalysisUpdateOk(r) THEN Some(run[r].analysis) ELSE Nothing
            /\ BeforeInsights(r) => row.categorized_insights = columnDefault

\* The analyzer has completed with its update stored, and the insight
\* extractor has not: the record holds the analysis and the column default.
C21_Witness ==
    \E r \in Runs :
        /\ HasSession(r)
        /\ run[r].pc = "insight_wait"
        /\ AnalysisUpdateOk(r)
        /\ sessions[run[r].session_id].initial_analysis = Some(run[r].analysis)
        /\ sessions[run[r].session_id].categorized_insights = columnDefault

\* ------------------------------------------------------- follow-up context

\* Follow-ups c and d are two calls on one session with the same question
\* that differ in the prior-turn list the client sent.
DifferInHistory(c, d) ==
    /\ c # d
    /\ chat[c].session_id = chat[d].session_id
    /\ chat[c].question = chat[d].question
    /\ chat[c].history # chat[d].history

\* Both calls have read the session and neither has written: both read the
\* state the store holds now.
BothReading(c, d) == chat[c].pc = "agent" /\ chat[d].pc = "agent"

\* C22: the prior-turn list a client sends is not authoritative.  Two
\* follow-ups on the same stored session state with the same question that
\* differ only in that list work with the stored history and build the same
\* conversation context from the stored record; and when they got the same
\* answer they persist the same chat_history.
C22_HistoryNotAuthoritative ==
    \A c, d \in Chats :
        DifferInHistory(c, d) =>
            /\ BothReading(c, d) =>
                  LET row == sessions[chat[c].session_id] IN
                  /\ chat[c].existing_db_history = row.chat_history
                  /\ chat[d].existing_db_history = row.chat_history
                  /\ chat[c].messages_for_memory = chat[d].messages_for_memory
                  /\ chat[c].messages_for_memory =
                         Some(messages_for_memory(row.initial_analysis,
                                                  row.chat_history[1]))
            /\ ( /\ chat[c].updated_db_history # Nothing
                 /\ chat[d].updated_db_history # Nothing
                 /\ chat[c].existing_db_history = chat[d].existing_db_history
                 /\ chat[c].updated_db_history[1][Len(chat[c].updated_db_history[1])]
                        = chat[d].updated_db_history[1][Len(chat[d].updated_db_history[1])] )
               => chat[c].updated_db_history = chat[d].updated_db_history

\* Two calls with the same question and different client histories read
\* the same stored state, and both persisted the same two turns.
C22_Witness ==
    /\ DifferInHistory("c1", "c2")
    /\ Answered("u1") = Chats
    /\ chat["c1"].existing_db_history = Some(<<>>)
    /\ chat["c2"].existing_db_history = Some(<<>>)
    /\ chat["c1"].updated_db_history = chat["c2"].updated_db_history
    /\ sessions["u1"].chat_history = chat["c1"].updated_db_history

\* ------------------------------------------------------------ session read

\* C23 as stated: fetching one session's record by an id that has no record
\* ends with HTTP 404, not with the HTTP 500 used for store failures.
C23_Original ==
    (fetched # Nothing /\ fetched[1].session_id \notin DOMAIN sessions)
        => fetched[1].status = 404

\* ------------------------------------------------------- analyzer, no rows

\* Request r takes the step in which its analyzer, given no rows, returns.
AnalyzesNoRows(r) ==
    /\ run[r].pc = "analyze_data"
    /\ run[r].loaded_data = <<>>
    /\ run'[r].pc # "analyze_data"

\* A request without loaded rows has asked for no chunk completion and has
\* issued no update of initial_analysis.
NoRowsNoCalls ==
    \A r \in Runs :
        run[r].loaded_data = <<>> =>
            /\ \A i \in DOMAIN run[r].llm_calls : run[r].llm_calls[i] # "chunk"
            /\ \A i \in DOMAIN run[r].store_calls :
                  run[r].store_calls[i][1] # "initial_analysis"

\* C24: when the loaded row list is empty the analyzer returns the fixed
\* "no data" analysis text, issues no model completion request and no store
\* update, and the next node follows.
C24_NoDataNoCalls ==
    /\ []NoRowsNoCalls
    /\ [][\A r \in Runs :
             AnalyzesNoRows(r) =>
                 /\ run'[r].analysis = <<[label |-> 0, kind |-> "NoData"]>>
                 /\ run'[r].pc = "categorize_insight"
                 /\ run'[r].llm_calls = run[r].llm_calls
                 /\ run'[r].store_calls = run[r].store_calls
                 /\ sessions' = sessions]_vars

\* The load of an empty payload failed and the analyzer has returned the
\* "no data" text without any call.
C24_Witness ==
    /\ run["r1"].pc = "categorize_insight"
    /\ run["r1"].data = List(<<>>)
    /\ run["r1"].loaded_data = <<>>
    /\ run["r1"].analysis = <<[label |-> 0, kind |-> "NoData"]>>
    /\ run["r1"].llm_calls = <<>>
    /\ run["r1"].store_calls = <<>>

\* ---------------------------------------------------- analyzer, one by one

\* The chunk completions request r has asked for and that have not
\* returned or failed yet.
InFlight(r) == ChunkCalls(r) - Len(run[r].chunk_ok)

\* Request r takes a step that asks for a chunk completion.
RequestsChunk(r) == Len(run'[r].llm_calls) = Len(run[r].llm_calls) + 1
                    /\ run'[r].llm_calls[Len(run'[r].llm_calls)] = "chunk"

\* At most one chunk completion of a request is in flight, exactly when the
\* request waits for it, and it is the one for the chunk after those that
\* have returned, one of the ceil(R/100) chunks.
OneInFlight ==
    \A r \in Runs :
        /\ InFlight(r) = IF run[r].pc = "chunk_wait" THEN 1 ELSE 0
        /\ run[r].pc = "chunk_wait" =>
              /\ run[r].index = Len(run[r].chunk_ok)
              /\ run[r].index < CeilDiv(Len(run[r].loaded_data), CHUNK_SIZE)

\* C25: the analyzer of a run has at most one chunk completion request in
\* flight at any time; the request for the next chunk is issued only in the
\* step in which the one before it has returned or failed, and the requests
\* are for chunks 1, 2, ... in ascending order.
C25_OneAtATime ==
    /\ []OneInFlight
    /\ [][\A r \in Runs :
             RequestsChunk(r) =>
                 /\ Len(run'[r].chunk_ok) = ChunkCalls(r)
                 /\ run'[r].index = ChunkCalls(r)
                 /\ run'[r].pc = "chunk_wait"]_vars

\* The third chunk's request is in flight after the first two returned.
C25_Witness ==
    /\ run["r1"].pc = "chunk_wait"
    /\ run["r1"].index = 2
    /\ Len(run["r1"].chunk_ok) = 2
    /\ ChunkCalls("r1") = 3

\* -------------------------------------------------------- follow-up failure

\* Follow-up c, with its session loaded, takes the step in which it fails:
\* the model or the reasoning loop raises, or the history update raises.
FailsAfterLoad(c) ==
    chat[c].pc = "agent" /\ chat'[c].pc = "done" /\ chat'[c].status # 200

\* Every stored history is made of whole pairs: a user turn and then its
\* assistant turn.
NoPartialTurn ==
    \A s \in DOMAIN sessions :
        /\ sessions[s].chat_history # Nothing
        /\ Len(sessions[s].chat_history[1]) % 2 = 0
        /\ Alternating(sessions[s].chat_history[1])

\* C26: when a follow-up fails after its session was loaded, the caller
\* gets an error (HTTP 500) and no answer, and every stored record, with its
\* chat_history, initial_analysis and categorized_insights, is left as it
\* was; no user turn without its assistant turn is ever stored.
C26_FailureLeavesRecord ==
    /\ []NoPartialTurn
    /\ [][\A c \in Chats :
             FailsAfterLoad(c) =>
                 /\ sessions' = sessions
                 /\ chat'[c].status = 500
                 /\ chat'[c].response = Nothing]_vars

\* The model raised in the third cycle of a follow-up on u1, after the
\* other follow-up had stored its pair: the record holds that pair only.
C26_Witness ==
    /\ chat["c1"].pc = "done"
    /\ chat["c1"].status = 500
    /\ chat["c1"].current_df # Nothing
    /\ chat["c1"].iterations = 2
    /\ chat["c1"].store_calls = <<>>
    /\ chat["c1"].session_id = "u1"
    /\ Answered("u1") = {"c2"}
    /\ Len(sessions["u1"].chat_history[1]) = 2

\* ------------------------------------------------------------ frame effects

\* The fields of a session record.
RecordFields ==
    {"session_id", "original_file_path", "dataframe_storage_path",
     "initial_analysis", "chat_history", "categorized_insights"}

\* The (record, field) pairs whose stored value the step changes.
Changed ==
    {sf \in (DOMAIN sessions) \X RecordFields :
        sessions'[sf[1]][sf[2]] # sessions[sf[1]][sf[2]]}

\* The component whose step may write field f of record s: the analyzer of
\* the run that owns s at its last chunk, the insight extractor of that run,
\* or a follow-up on s whose agent returns.
Writer(s, f) ==
    \/ /\ f = "initial_analysis"
       /\ \E r \in Runs : /\ run[r].session_id = s
                          /\ run[r].pc = "chunk_wait"
                          /\ run'[r].pc = "categorize_insight"
    \/ /\ f = "categorized_insights"
       /\ \E r \in Runs : /\ run[r].session_id = s
                          /\ run[r].pc \in {"parse_insights", "insight_wait"}
                          /\ run'[r].pc = "respond"
    \/ /\ f = "chat_history"
       /\ \E c \in Chats : /\ chat[c].session_id = s
                           /\ chat[c].pc = "agent"
                           /\ chat'[c].pc = "done"

NewBlobs == DOMAIN blobs' \ DOMAIN blobs

\* The step is the data loader of some request writing the blob of the
\* session id it has just generated at path p.
LoaderWrites(p) ==
    \E r \in Runs :
        /\ run[r].pc = "load_data"
        /\ run'[r].pc # "load_data"
        /\ \E id \in SessionIds \ DOMAIN sessions :
              /\ p = <<"processed_data", id, ".parquet">>
              /\ run'[r].session_id \in {id, None}

\* C28: a blob, once written, is never written again or removed: every
\* step of the analyzer, the tag extractor, the insight extractor and a
\* follow-up leaves all blobs as they are, and the data loader only adds the
\* blob at the path of the session id it has just generated.
C28_BlobImmutable ==
    [][/\ \A p \in DOMAIN blobs : p \in DOMAIN blobs' /\ blobs'[p] = blobs[p]
       /\ Cardinality(NewBlobs) <= 1
       /\ \A p \in NewBlobs : LoaderWrites(p)]_vars

\* The pipeline has finished and a follow-up has read and answered: the
\* blob is still the loader's serialization of the table.
C28_Witness ==
    /\ run["r1"].pc = "done"
    /\ run["r1"].dataframe # Nothing
    /\ chat["c1"].pc = "done"
    /\ chat["c1"].status = 200
    /\ chat["c1"].session_id = run["r1"].session_id
    /\ blobs[<<"processed_data", run["r1"].session_id, ".parquet">>]
           = ToParquet(run["r1"].dataframe[1])

\* ------------------------------------------------------------ control flow

\* Follow-up c was answered.
ChatAnswered(c) == chat[c].pc = "done" /\ chat[c].status = 200

\* The data loader of some request created the session of follow-up c, and
\* has returned.
CreatedByLoader(c) ==
    /\ chat[c].session_id \in DOMAIN sessions
    /\ \E r \in Runs :
          /\ run[r].session_id = chat[c].session_id
          /\ StageOf(run[r].pc) >= 2

\* C29: in every pipeline run the nodes run once each in the order data
\* loader, analyzer, tag extractor, insight extractor, respond, each entered
\* from the one before it, none entered again and none skipped; and a
\* follow-up is answered only against a session the data loader has created.
C29_LinearPipeline ==
    /\ [](\A c \in Chats : ChatAnswered(c) => CreatedByLoader(c))
    /\ [][\A r \in Runs :
             IsValidRequest(run[r].data) =>
                 \/ StageOf(run'[r].pc) = StageOf(run[r].pc)
                 \/ StageOf(run'[r].pc) = StageOf(run[r].pc) + 1]_vars

\* A follow-up was answered while the run that created its session was
\* still in its insight extractor.
C29_Witness ==
    /\ ChatAnswered("c1")
    /\ run["r1"].session_id = chat["c1"].session_id
    /\ run["r1"].pc = "insight_wait"

\* Follow-up c takes the step that reads its session and builds the
\* conversation context.
BuildsContext(c) == chat[c].pc = "start" /\ chat'[c].pc = "agent"

\* 1 when the stored initial_analysis is a non-empty text, else 0.
Leading(row) ==
    IF row.initial_analysis # Nothing /\ row.initial_analysis[1] # <<>> THEN 1 ELSE 0

\* The message type of a stored role.
TypeOfRole(role) == IF role = "user" THEN "human" ELSE "ai"

\* C30: the conversation context built for a follow-up is one leading
\* context message carrying initial_analysis if and only if the stored
\* initial_analysis is non-empty, followed by one message per stored
\* chat_history turn in stored order, a user turn as a user-role message and
\* an assistant turn as an assistant-role message, none dropped or reordered.
C30_ConversationContext ==
    [][\A c \in Chats :
          BuildsContext(c) =>
              LET row == sessions[chat[c].session_id]
                  h == row.chat_history[1]
                  m == chat'[c].messages_for_memory[1]
                  lead == Leading(row)
              IN  /\ Len(m) = lead + Len(h)
                  /\ lead = 1 =>
                        m[1] = [type |-> "system",
                                content |-> <<"Initial Data Analysis: ",
                                              row.initial_analysis[1]>>]
                  /\ \A i \in 1..Len(h) :
                        /\ h[i].role \in {"user", "assistant"}
                        /\ m[lead + i].type = TypeOfRole(h[i].role)
                        /\ m[lead + i].content = h[i].content]_vars

\* A follow-up built its context from a stored analysis and one stored
\* pair: a system message, a user message and an assistant message.
C30_Witness ==
    /\ chat["c2"].pc = "agent"
    /\ Len(chat["c2"].messages_for_memory[1]) = 3
    /\ chat["c2"].messages_for_memory[1][1].type = "system"
    /\ chat["c2"].messages_for_memory[1][2].type = "human"
    /\ chat["c2"].messages_for_memory[1][3].type = "ai"

\* ------------------------------------------------------------------- C31

\* The number of occurrences of the lexeme tk in text.
Count(text, tk) == Cardinality(Where(text, tk, 1))

\* The contents of the first fenced block of text, tagged json or not, that
\* start with { and end with }.
FencedObjects(text) ==
    {b[1] : b \in {x \in {FirstCodeBlock(text, TRUE), FirstCodeBlock(text, FALSE)} :
                      x # Nothing /\ LooksLikeObject(x[1])}}

\* The text has both braces.
HasBraces(text) == Where(text, P("{"), 1) # {} /\ Where(text, P("}"), 1) # {}

\* The substring from the first { to the last }.
FirstToLast(text) ==
    SubSeq(text, Least(Where(text, P("{"), 1)), Greatest(Where(text, P("}"), 1)))

\* The substring from the first { to the last } has as many { as }.
Balanced(text) ==
    HasBraces(text)
    /\ Count(FirstToLast(text), P("{")) = Count(FirstToLast(text), P("}"))

\* The first match of the searches anchored on the key, if any.
Keyed(text) ==
    IF KeyedArrayMatch(text) # Nothing THEN KeyedArrayMatch(text)
    ELSE KeyedObjectMatch(text)

\* C31: the JSON extraction gives the candidate of the first strategy that
\* succeeds, in a fixed order: the contents of a fenced code block when they
\* start with { and end with }; else the substring from the first { to the
\* last } when it has as many { as }; else the first match of the search
\* anchored on the insights key; else the empty text.
C31_ExtractionPriority ==
    extracted # Nothing =>
        LET text == insightCase[1][1]
            out == extracted[1]
        IN  IF FencedObjects(text) # {} THEN out \in FencedObjects(text)
            ELSE IF Balanced(text) THEN out = FirstToLast(text)
            ELSE IF Keyed(text) # Nothing THEN out = Keyed(text)[1]
            ELSE out = <<>>

\* Witness: a text with a fenced block that is no object and braces that do
\* not balance, for which the search anchored on the key gave the result.
C31_KeyedSearchWins ==
    /\ extracted # Nothing
    /\ FencedObjects(insightCase[1][1]) = {}
    /\ HasBraces(insightCase[1][1])
    /\ ~Balanced(insightCase[1][1])
    /\ Keyed(insightCase[1][1]) # Nothing
    /\ extracted[1] = Keyed(insightCase[1][1])[1]
    /\ extracted[1] # <<>>

\* ------------------------------------------------------------------- C32

\* The number of completions of the given kind task r has requested.
Calls(r, kind) ==
    Cardinality({i \in DOMAIN run[r].llm_calls : run[r].llm_calls[i] = kind})

\* The number of store updates of the given column task r has issued.
Updates(r, field) ==
    Cardinality({i \in DOMAIN run[r].store_calls : run[r].store_calls[i][1] = field})

\* No task has asked for more completions than one per chunk of its table,
\* one for the tags and one for the insights, nor issued more than one
\* update of a column.
AttemptedOnce ==
    \A r \in Runs :
        LET chunks == CeilDiv(Len(run[r].loaded_data), CHUNK_SIZE) IN
        /\ Calls(r, "chunk") <= chunks
        /\ Calls(r, "tags") <= 1
        /\ Calls(r, "insights") <= 1
        /\ Len(run[r].llm_calls) <= chunks + 2
        /\ \A field \in {"initial_analysis", "tags", "categorized_insights"} :
              Updates(r, field) <= 1

\* A step that asks for a chunk completion asks for a chunk no earlier
\* request of the task was for, once all of those have returned or failed.
NewChunkEachTime ==
    \A r \in Runs :
        RequestsChunk(r) =>
            /\ run'[r].index = Calls(r, "chunk")
            /\ Len(run'[r].chunk_ok) = Calls(r, "chunk")

\* C32: every completion and every store update of a pipeline run is
\* attempted once and not repeated after a failure: at most one completion
\* request per chunk, one for the tags and one for the insights, hence at
\* most ceil(R/100) + 2 requests in a run.
C32_AttemptedOnce == []AttemptedOnce /\ [][NewChunkEachTime]_vars

\* Witness: a finished run of a table of three chunks in which a chunk
\* completion and a store update failed, with five completion requests.
C32_FailuresNotRetried ==
    \E r \in Runs :
        /\ run[r].pc = "done"
        /\ Len(run[r].loaded_data) = 2 * CHUNK_SIZE + 1
        /\ Len(run[r].llm_calls) = 5
        /\ \E k \in DOMAIN run[r].chunk_ok : ~run[r].chunk_ok[k]
        /\ \E i \in DOMAIN run[r].store_calls : ~run[r].store_calls[i][2]

\* ------------------------------------------------------------------- C33

\* The stored blobs no session record refers to.
Orphans ==
    {p \in DOMAIN blobs :
        \A s \in DOMAIN sessions : sessions[s].dataframe_storage_path # p}

\* The stored blobs no session record refers to, after the step.
OrphansAfter ==
    {p \in DOMAIN blobs' :
        \A s \in DOMAIN sessions' : sessions'[s].dataframe_storage_path # p}

\* The collaborators answer so that the load of st reaches the upload, the
\* upload succeeds and the insert fails (no data, or an exception).
UploadThenInsertFails(st, env, id) ==
    LET out == load_data_node(st, env, id) IN
    /\ out.df_result # Nothing
    /\ ~IsEmptyFrame(out.df_result[1])
    /\ env.parquet = "ok"
    /\ env.upload = "ok"
    /\ env.insert # "ok"

\* Whenever the load of task r may run, every such answer makes it return
\* the storage error with no session id, the blob written and no record
\* inserted.
InsertFailureOutcome(r) ==
    \A env \in LoadEnvs, id \in FreshIds :
        UploadThenInsertFails(run[r], env, id) =>
            LET out == load_data_node(run[r], env, id) IN
            /\ ~out.raised
            /\ out.error = ErrStorage
            /\ out.session_id = None
            /\ out.upload # Nothing
            /\ out.upload[1].path = <<"processed_data", id, ".parquet">>
            /\ out.insert = Nothing

\* A load step that writes a blob and inserts no record ends with the
\* storage error and no session id, and leaves that blob unreferred.
BlobWithoutRecord(r) ==
    (LoadStep(r) /\ NewBlobs # {} /\ sessions' = sessions) =>
        /\ run'[r].error = ErrStorage
        /\ run'[r].session_id = None
        /\ NewBlobs \subseteq OrphansAfter

\* C33: when the blob upload succeeds and the session record insert then
\* fails, the Data Loader run ends with an error and no session id, and the
\* uploaded blob stays in storage with no session record referring to it,
\* then and ever after: no step deletes it.
C33_OrphanBlobOnInsertFailure ==
    /\ [](\A r \in Runs :
            (run[r].pc = "load_data" /\ IsValidRequest(run[r].data))
                => InsertFailureOutcome(r))
    /\ [][\A r \in Runs : BlobWithoutRecord(r)]_vars
    /\ [][Orphans \subseteq OrphansAfter]_vars

\* Witness: one task's load left a blob without a record and answered with
\* the storage error and no session id, and the other task has since
\* created its own session.
C33_OrphanRemains ==
    \E r, q \in Runs :
        /\ r # q
        /\ run[r].pc = "done"
        /\ run[r].error = ErrStorage
        /\ run[r].session_id = None
        /\ run[q].session_id \in DOMAIN sessions
        /\ Orphans # {}
        /\ Cardinality(DOMAIN blobs) = 2

\* ------------------------------------------------------------------- C34

\* Follow-up c is about to load a session that has a record.
LoadsExisting(c) == chat[c].pc = "start" /\ chat[c].session_id \in DOMAIN sessions

\* For the record follow-up c asks for, a download that raises or gives no
\* bytes makes the first try raise HTTP 500 and set no table, whatever
\* read_parquet would have answered.
DownloadFailureRaises(c) ==
    LET id == chat[c].session_id
        path == sessions[id].dataframe_storage_path
    IN  \A download \in DownloadAnswers(blobs, path) \ {"bytes"},
           parquet \in {"ok", "raises"} :
            LET first == SessionContext(sessions, blobs, id, "ok", download, parquet) IN
            /\ first.raised = 500
            /\ first.current_df = Nothing

\* Follow-up c takes the step in which its loading of the session fails.
FailsInLoad(c) == chat[c].pc = "start" /\ chat'[c].pc = "done"

\* The step answers follow-up c with an error and no answer, with no model
\* call and no store update made, and leaves every record as it is.
EndsUntouched(c) ==
    /\ chat'[c].status \in {404, 500}
    /\ chat[c].session_id \in DOMAIN sessions => chat'[c].status = 500
    /\ chat'[c].response = Nothing
    /\ chat'[c].llm_calls = 0
    /\ chat'[c].store_calls = <<>>
    /\ sessions' = sessions
    /\ blobs' = blobs

\* C34: a follow-up question on an existing session whose table blob cannot
\* be downloaded or is empty ends with a storage error (HTTP 500): no model
\* call is made, no answer is returned and the session record is unchanged.
C34_DownloadFailure ==
    /\ [](\A c \in Chats : LoadsExisting(c) => DownloadFailureRaises(c))
    /\ [][\A c \in Chats : FailsInLoad(c) => EndsUntouched(c)]_vars

\* Witness: a follow-up on the session that has a record ended with HTTP
\* 500 before any model call, and the record still has its empty history.
C34_FailedBeforeModel ==
    \E c \in Chats :
        /\ chat[c].pc = "done"
        /\ chat[c].session_id \in DOMAIN sessions
        /\ chat[c].status = 500
        /\ chat[c].llm_calls = 0
        /\ chat[c].response = Nothing
        /\ sessions[chat[c].session_id].chat_history = Some(<<>>)

\* ------------------------------------------------------------------- C35

\* The table held by follow-up c is the one deserialized from the blob at
\* the path stored in the record of the session it asked about.
FromOwnBlob(c) ==
    LET id == chat[c].session_id IN
    /\ id \in DOMAIN sessions
    /\ sessions[id].dataframe_storage_path = <<"processed_data", id, ".parquet">>
    /\ sessions[id].dataframe_storage_path \in DOMAIN blobs
    /\ chat[c].current_df[1].columns = blobs[sessions[id].dataframe_storage_path].schema
    /\ chat[c].current_df[1].nrows = blobs[sessions[id].dataframe_storage_path].num_rows

\* No follow-up has taken its table or its analysis from the globals, and
\* every follow-up that holds a table (so every one that called the model
\* or was answered) holds the one of its own session's blob.
GlobalsNeverRead ==
    \A c \in Chats :
        /\ ~chat[c].from_globals
        /\ (chat[c].llm_calls > 0 \/ chat[c].response # Nothing)
              => chat[c].current_df # Nothing
        /\ chat[c].current_df # Nothing => FromOwnBlob(c)

\* The step in which a follow-up loads its session takes the analysis
\* context from the session's record and leaves the globals as they are.
ContextFromRecord ==
    \A c \in Chats :
        (chat[c].pc = "start" /\ chat'[c].pc = "agent") =>
            /\ chat'[c].initial_analysis_context
                  = sessions[chat[c].session_id].initial_analysis
            /\ lastProcessed' = lastProcessed

InsightsReturned(r) == run[r].pc \in {"respond", "done"} /\ run[r].status # 500
                       /\ run[r].status # 422

\* Task r's parse_insights_node has not been entered yet.
InsightsNotEntered(r) ==
    run[r].pc \in {"idle", "load_data", "analyze_data", "chunk_wait",
                   "categorize_insight", "tag_wait", "parse_insights"}

\* The update of categorized_insights is issued by the insight extractor
\* alone: none before it is entered, none while it waits for the model, one
\* once it has returned for a run with a session id, none for a run
\* without.
OneInsightUpdate ==
    \A r \in Runs :
        /\ (InsightsNotEntered(r) \/ run[r].pc = "insight_wait")
              => Updates(r, "categorized_insights") = 0
        /\ InsightsReturned(r) =>
              Updates(r, "categorized_insights")
                  = IF run[r].session_id # None THEN 1 ELSE 0
        /\ run[r].session_id = None => Updates(r, "categorized_insights") = 0

\* Every run of the graph reaches the end of the insight extractor.
InsightsReached ==
    <>[](\A r \in Runs : Entered(r) /\ run[r].status # 500 => InsightsReturned(r))

\* C36: in every pipeline run that has a session id the insight extractor
\* issues exactly one store update of categorized_insights, on every path
\* (empty analysis, success, extraction failure, JSON parse error, model
\* failure), and in a run without a session id it issues none.
C36_OneInsightUpdate == []OneInsightUpdate /\ InsightsReached

\* Witness: a run with a session id whose insight completion failed has
\* ended with one update of categorized_insights, which stored the empty
\* list.
C36_UpdateAfterModelFailure ==
    \E r \in Runs :
        /\ run[r].pc = "done"
        /\ run[r].session_id \in DOMAIN sessions
        /\ Calls(r, "insights") = 1
        /\ run[r].structured_insights = <<>>
        /\ Updates(r, "categorized_insights") = 1
        /\ sessions[run[r].session_id].categorized_insights = Some(<<>>)

====
